---- MODULE Spec2Model ----
(***************************************************************************)
(* Model of the cypress-automation-framework utilities.                    *)
(*                                                                         *)
(* The centre is AutoHealing (src/utils/AutoHealing.ts): the recursive     *)
(* attemptFind loop, the six selector strategies and the sensitivity       *)
(* filter, together with the updateLocator task of cypress.config that     *)
(* logHealingAction invokes.  Selectors are the strings the code builds;   *)
(* a DOM snapshot is the set of selector strings that match >= 1 element.  *)
(***************************************************************************)
EXTENDS Integers, Sequences, FiniteSets, TLC

(***************************************************************************)
(* String primitives (JavaScript String methods used by the source).       *)
(***************************************************************************)
Char(s, i) == SubSeq(s, i, i)

Lowers == {"a","b","c","d","e","f","g","h","i","j","k","l","m",
           "n","o","p","q","r","s","t","u","v","w","x","y","z"}
Uppers == {"A","B","C","D","E","F","G","H","I","J","K","L","M",
           "N","O","P","Q","R","S","T","U","V","W","X","Y","Z"}
Digits == {"0","1","2","3","4","5","6","7","8","9"}
Whitespace == {" "}
LowerStr == "abcdefghijklmnopqrstuvwxyz"
UpperStr == "ABCDEFGHIJKLMNOPQRSTUVWXYZ"

\* /[a-zA-Z0-9]/ and /[\w-]/
IsAlnum(c) == c \in Lowers \cup Uppers \cup Digits
IsWordOrDash(c) == IsAlnum(c) \/ c \in {"_", "-"}

\* position of the one-character string c in str (0 when absent)
PosIn(c, str) ==
  LET hits == {i \in 1..Len(str) : Char(str, i) = c}
  IN  IF hits = {} THEN 0 ELSE CHOOSE i \in hits : \A j \in hits : i <= j

ToLowerChar(c) == IF c \in Uppers THEN Char(LowerStr, PosIn(c, UpperStr)) ELSE c
ToUpperChar(c) == IF c \in Lowers THEN Char(UpperStr, PosIn(c, LowerStr)) ELSE c

RECURSIVE MapChars(_, _, _)
\* apply a per-character rewriting f (1: lower, 2: upper, 3: /([A-Z])/g -> ' $1',
\* 4: /[-_]/g -> ' ', 5: /[^a-zA-Z0-9]/g -> '') to every character of s, from i on
MapChars(f, s, i) ==
  IF i > Len(s) THEN ""
  ELSE LET c == Char(s, i)
           r == CASE f = 1 -> ToLowerChar(c)
                  [] f = 2 -> ToUpperChar(c)
                  [] f = 3 -> IF c \in Uppers THEN " " \o c ELSE c
                  [] f = 4 -> IF c \in {"-", "_"} THEN " " ELSE c
                  [] OTHER -> IF IsAlnum(c) THEN c ELSE ""
       IN  r \o MapChars(f, s, i + 1)

toLowerCase(s) == MapChars(1, s, 1)
toUpperCase(s) == MapChars(2, s, 1)

\* String.prototype.trim
trim(s) ==
  LET keep == {i \in 1..Len(s) : Char(s, i) \notin Whitespace}
  IN  IF keep = {} THEN ""
      ELSE LET lo == CHOOSE i \in keep : \A j \in keep : i <= j
               hi == CHOOSE i \in keep : \A j \in keep : i >= j
           IN  SubSeq(s, lo, hi)

\* String.prototype.includes
includes(s, sub) ==
  \E i \in 1..(Len(s) - Len(sub) + 1) : SubSeq(s, i, i + Len(sub) - 1) = sub

\* String.prototype.substring(0, n)
substring0(s, n) == SubSeq(s, 1, IF n < Len(s) THEN n ELSE Len(s))

\* is sub found in s at position i
At(s, i, sub) == i >= 1 /\ i + Len(sub) - 1 <= Len(s) /\ SubSeq(s, i, i + Len(sub) - 1) = sub

\* end of the maximal run of characters from i on that are not in stop
\* (i - 1 when the run is empty)
RunEnd(s, i, stop) ==
  LET bad == {j \in i..Len(s) : Char(s, j) \in stop}
  IN  IF bad = {} THEN Len(s) ELSE (CHOOSE j \in bad : \A k \in bad : j <= k) - 1

\* end of the maximal run of [\w-] characters from i on
WordRunEnd(s, i) ==
  LET bad == {j \in i..Len(s) : ~IsWordOrDash(Char(s, j))}
  IN  IF bad = {} THEN Len(s) ELSE (CHOOSE j \in bad : \A k \in bad : j <= k) - 1

Min(S) == CHOOSE x \in S : \A y \in S : x <= y

\* extractIdentifier's null.  Every capture group of its patterns is a `+' group,
\* so a match is never empty, and the callers only test `if (identifier)'.
NoIdentifier == ""

\* leftmost match of  lead ([^stop]+)
MatchAfter(s, lead, stop) ==
  LET starts == {i \in 1..Len(s) : At(s, i, lead) /\ RunEnd(s, i + 1, stop) >= i + 1}
  IN  IF starts = {} THEN NoIdentifier
      ELSE LET i == Min(starts) IN SubSeq(s, i + 1, RunEnd(s, i + 1, stop))

\* leftmost match of  open ([^"]+) close ; opens holds <<i, b>> for every
\* position i where `open' matches, b being the position right after it
MatchQuoted(s, opens, close) ==
  LET ok == {o \in opens : LET e == RunEnd(s, o[2], {"\""})
                           IN  e >= o[2] /\ At(s, e + 1, close)}
  IN  IF ok = {} THEN NoIdentifier
      ELSE LET o == CHOOSE o \in ok : \A q \in ok : o[1] <= q[1]
           IN  SubSeq(s, o[2], RunEnd(s, o[2], {"\""}))

\* AutoHealing.extractIdentifier
extractIdentifier(selector) ==
  LET idMatch    == MatchAfter(selector, "#", {".", " ", "["})
      classMatch == MatchAfter(selector, ".", {"#", " ", "["})
      attrOpens  == {<<i, WordRunEnd(selector, i + 1) + 3>> : i \in
                      {i \in 1..Len(selector) :
                         /\ Char(selector, i) = "["
                         /\ WordRunEnd(selector, i + 1) >= i + 1
                         /\ At(selector, WordRunEnd(selector, i + 1) + 1, "=\"")}}
      attrMatch  == MatchQuoted(selector, attrOpens, "\"]")
      contOpens  == {<<i, i + 11>> : i \in
                      {i \in 1..Len(selector) : At(selector, i, ":contains(\"")}}
      containsMatch == MatchQuoted(selector, contOpens, "\")")
  IN  IF idMatch # NoIdentifier THEN idMatch
      ELSE IF classMatch # NoIdentifier THEN classMatch
      ELSE IF attrMatch # NoIdentifier THEN attrMatch
      ELSE containsMatch

\* AutoHealing.capitalizeFirst
capitalizeFirst(str) ==
  IF Len(str) = 0 THEN "" ELSE ToUpperChar(Char(str, 1)) \o SubSeq(str, 2, Len(str))


RECURSIVE Flatten(_)
\* concatenation of a sequence of sequences
Flatten(ss) == IF ss = <<>> THEN <<>> ELSE Head(ss) \o Flatten(Tail(ss))

Sensitivities == {"low", "medium", "high"}
\* config.sensitivity of a config object that has no such property
NoSensitivity == "undefined"

\* elementType values: NoType is `undefined' (argument omitted)
NoType == "undefined"
semanticMap ==
  [button    |-> <<"button", "[role=\"button\"]", "input[type=\"submit\"]", "input[type=\"button\"]">>,
   input     |-> <<"input", "[role=\"textbox\"]", "textarea", "[contenteditable=\"true\"]">>,
   link      |-> <<"a", "[role=\"link\"]">>,
   select    |-> <<"select", "[role=\"combobox\"]", "[role=\"listbox\"]">>,
   text      |-> <<"span", "div", "p", "[role=\"text\"]", "label">>,
   container |-> <<"div", "section", "article", "[role=\"main\"]", "[role=\"region\"]">>]
roleMap ==
  [button    |-> <<"[role=\"button\"]">>,
   input     |-> <<"[role=\"textbox\"]", "[role=\"searchbox\"]">>,
   link      |-> <<"[role=\"link\"]">>,
   select    |-> <<"[role=\"combobox\"]", "[role=\"listbox\"]">>,
   text      |-> <<"[role=\"text\"]", "[role=\"heading\"]">>,
   container |-> <<"[role=\"main\"]", "[role=\"region\"]", "[role=\"section\"]">>]

\* `if (elementType)': undefined and the empty string are falsy
Truthy(elementType) == elementType # NoType /\ elementType # ""

\* AutoHealing.getAttributeStrategy
\* The attribute list without its last entry.
getAttributeStrategySixAttributes(originalSelector) ==
  LET identifier == extractIdentifier(originalSelector)
      attributes == <<"id", "name", "data-testid", "data-cy", "data-test", "class">>
      four(attr) == << "[" \o attr \o "=\""  \o identifier \o "\"]",
                       "[" \o attr \o "*=\"" \o identifier \o "\"]",
                       "[" \o attr \o "^=\"" \o identifier \o "\"]",
                       "[" \o attr \o "$=\"" \o identifier \o "\"]" >>
  IN  [name |-> "Attribute Strategy", priority |-> 1,
       selectors |-> IF identifier # NoIdentifier
                     THEN Flatten([i \in 1..Len(attributes) |-> four(attributes[i])])
                     ELSE <<>>]

getAttributeStrategy(originalSelector) ==
  LET identifier == extractIdentifier(originalSelector)
      attributes == <<"id", "name", "data-testid", "data-cy", "data-test", "class", "aria-label">>
      four(attr) == << "[" \o attr \o "=\""  \o identifier \o "\"]",
                       "[" \o attr \o "*=\"" \o identifier \o "\"]",
                       "[" \o attr \o "^=\"" \o identifier \o "\"]",
                       "[" \o attr \o "$=\"" \o identifier \o "\"]" >>
  IN  [name |-> "Attribute Strategy", priority |-> 1,
       selectors |-> IF identifier # NoIdentifier
                     THEN Flatten([i \in 1..Len(attributes) |-> four(attributes[i])])
                     ELSE <<>>]

\* AutoHealing.getSemanticStrategy
getSemanticStrategy(elementType) ==
  [name |-> "Semantic Strategy", priority |-> 2,
   selectors |-> IF elementType \in DOMAIN semanticMap THEN semanticMap[elementType] ELSE <<>>]

\* AutoHealing.getTextStrategy
getTextStrategy(originalSelector) ==
  LET identifier == extractIdentifier(originalSelector)
      readableText == toLowerCase(trim(MapChars(4, MapChars(3, identifier, 1), 1)))
      commonVariations == <<readableText, capitalizeFirst(readableText),
                            toUpperCase(readableText), identifier>>
      four(variation) == << "button:contains(\"" \o variation \o "\")",
                            "a:contains(\"" \o variation \o "\")",
                            "[aria-label=\"" \o variation \o "\"]",
                            "[title=\"" \o variation \o "\"]" >>
  IN  [name |-> "Text Strategy", priority |-> 3,
       selectors |-> IF identifier # NoIdentifier
                     THEN << ":contains(\"" \o readableText \o "\")",
                             ":contains(\"" \o identifier \o "\")" >>
                          \o Flatten([i \in 1..4 |-> four(commonVariations[i])])
                     ELSE <<>>]

\* AutoHealing.getStructuralStrategy
\* The position-based selectors pushed without looking at the sensitivity.
getStructuralStrategyAlwaysPosition(originalSelector, sensitivity) ==
  [name |-> "Structural Strategy", priority |-> 4,
   selectors |->
        (IF includes(originalSelector, "form")
         THEN <<"form input", "form button", "form select", "form textarea">> ELSE <<>>)
     \o (IF includes(originalSelector, "nav") \/ includes(originalSelector, "menu")
         THEN <<"nav a", "nav button", "[role=\"navigation\"] a", "[role=\"menuitem\"]">> ELSE <<>>)
     \o (IF includes(originalSelector, "table")
         THEN <<"table td", "table th", "table button", "table a">> ELSE <<>>)
     \o <<":first", ":last", ":nth-child(1)", ":nth-child(2)">>]
getStructuralStrategy(originalSelector, sensitivity) ==
  [name |-> "Structural Strategy", priority |-> 4,
   selectors |->
        (IF includes(originalSelector, "form")
         THEN <<"form input", "form button", "form select", "form textarea">> ELSE <<>>)
     \o (IF includes(originalSelector, "nav") \/ includes(originalSelector, "menu")
         THEN <<"nav a", "nav button", "[role=\"navigation\"] a", "[role=\"menuitem\"]">> ELSE <<>>)
     \o (IF includes(originalSelector, "table")
         THEN <<"table td", "table th", "table button", "table a">> ELSE <<>>)
     \o (IF sensitivity = "high"
         THEN <<":first", ":last", ":nth-child(1)", ":nth-child(2)">> ELSE <<>>)]

\* AutoHealing.getRoleStrategy
getRoleStrategy(elementType) ==
  [name |-> "Role Strategy", priority |-> 5,
   selectors |->
        (IF Truthy(elementType) /\ elementType \in DOMAIN roleMap
         THEN roleMap[elementType] ELSE <<>>)
     \o <<"[role=\"banner\"]", "[role=\"navigation\"]", "[role=\"main\"]",
          "[role=\"complementary\"]", "[role=\"contentinfo\"]">>]

\* AutoHealing.getFuzzyMatchingStrategy
getFuzzyMatchingStrategy(originalSelector) ==
  LET identifier == extractIdentifier(originalSelector)
      partialId  == substring0(identifier, Len(identifier) \div 2)
      cleanId    == MapChars(5, identifier, 1)
  IN  [name |-> "Fuzzy Matching Strategy", priority |-> 6,
       selectors |->
         IF identifier # NoIdentifier /\ Len(identifier) > 3
         THEN << "[id*=\"" \o partialId \o "\"]",
                 "[class*=\"" \o partialId \o "\"]",
                 "[data-testid*=\"" \o partialId \o "\"]" >>
              \o (IF cleanId # identifier
                  THEN << "[id*=\"" \o cleanId \o "\"]", "[class*=\"" \o cleanId \o "\"]" >>
                  ELSE <<>>)
         ELSE <<>>]

\* AutoHealing.getSensitivityMaxPriority
getSensitivityMaxPriorityLoose(sensitivity) ==
  CASE sensitivity = "low"    -> 3
    [] sensitivity = "medium" -> 4
    [] sensitivity = "high"   -> 6
    [] OTHER                  -> 4
getSensitivityMaxPriority(sensitivity) ==
  CASE sensitivity = "low"    -> 2
    [] sensitivity = "medium" -> 4
    [] sensitivity = "high"   -> 6
    [] OTHER                  -> 4

RECURSIVE SelectSeqBy(_, _)
\* Array.prototype.filter keeping the strategies of priority <= maxPriority
SelectSeqBy(strategies, maxPriority) ==
  IF strategies = <<>> THEN <<>>
  ELSE (IF Head(strategies).priority <= maxPriority THEN <<Head(strategies)>> ELSE <<>>)
       \o SelectSeqBy(Tail(strategies), maxPriority)

RECURSIVE InsertByPriority(_, _)
\* insert st after the last element whose priority is <= st.priority
InsertByPriority(sorted, st) ==
  IF sorted = <<>> THEN <<st>>
  ELSE IF Head(sorted).priority <= st.priority
       THEN <<Head(sorted)>> \o InsertByPriority(Tail(sorted), st)
       ELSE <<st>> \o sorted

RECURSIVE SortByPriority(_)
\* Array.prototype.sort((a, b) => a.priority - b.priority), a stable sort
SortByPriority(strategies) ==
  IF strategies = <<>> THEN <<>>
  ELSE InsertByPriority(SortByPriority(SubSeq(strategies, 1, Len(strategies) - 1)),
                        strategies[Len(strategies)])

\* AutoHealing.filterStrategiesBySensitivity
filterStrategiesBySensitivity(strategies, sensitivity) ==
  SortByPriority(SelectSeqBy(strategies, getSensitivityMaxPriority(sensitivity)))

\* the strategies array of getHealingStrategies before the sensitivity filter
pushedStrategiesAlwaysSemantic(originalSelector, elementType, sensitivity) ==
  <<getAttributeStrategy(originalSelector),
    getSemanticStrategy(elementType),
    getTextStrategy(originalSelector),
    getStructuralStrategy(originalSelector, sensitivity),
    getRoleStrategy(elementType),
    getFuzzyMatchingStrategy(originalSelector)>>
pushedStrategies(originalSelector, elementType, sensitivity) ==
     <<getAttributeStrategy(originalSelector)>>
  \o (IF Truthy(elementType) THEN <<getSemanticStrategy(elementType)>> ELSE <<>>)
  \o <<getTextStrategy(originalSelector),
       getStructuralStrategy(originalSelector, sensitivity),
       getRoleStrategy(elementType),
       getFuzzyMatchingStrategy(originalSelector)>>

\* AutoHealing.getHealingStrategies
getHealingStrategies(originalSelector, elementType, sensitivity) ==
  filterStrategiesBySensitivity(
    pushedStrategies(originalSelector, elementType, sensitivity), sensitivity)

(***************************************************************************)
(* Bounds and inputs.                                                      *)
(***************************************************************************)
MaxRetriesBound == 2      \* config.maxRetries ranges over 1..MaxRetriesBound
MaxCalls == 1             \* findElementWithHealing calls per behaviour
MaxMatches == 2           \* selectors of DomPool that match in one snapshot

\* selectors passed to findElementWithHealing, and the element-type hints
Selectors == {"#submit-btn", "table tr"}
ElementTypes == {NoType, "button"}

\* selectors that may match in the page (a snapshot is a subset of them)
DomPool == {"#submit-btn", "table tr", "[data-testid=\"submit-btn\"]", "button",
            "a:contains(\"submit btn\")", ":first", "[role=\"main\"]"}
Snapshots == {snap \in SUBSET DomPool : Cardinality(snap) <= MaxMatches}

\* arguments of the direct getHealingStrategies invocations
GenSelectors == {"#submit-btn", ".navMenu", "table tr", "[data-testid=\"ab\"]",
                 "a:contains(\"Hi\")", "#abc", "#abcd", "form .user_name",
                 "div > span", "[href=\"a.b\"]"}
GenTypes == {NoType, "", "button", "input", "link", "select", "text", "container", "dialog"}

\* Cypress.spec.relative and the text of that spec file
SpecFile == "cypress/e2e/login.cy.ts"
SpecFileText == "get('#submit-btn');get('table tr')"

\* Cypress.env('autoHealing'): unset, or a configuration object
Undefined == [undefined |-> TRUE]
\* screenshot names, and the images a screenshot or a baseline file can hold:
\* width x height pixels of which the first `dark' (in row order) are black
\* and the others white
Names == {"home"}
Image(width, height, dark) == [width |-> width, height |-> height, dark |-> dark]
Images == {Image(20, 10, 0), Image(20, 10, 1), Image(20, 10, 101),
           Image(10, 20, 0), Image(10, 10, 0)}
MissingFile == [missing |-> TRUE]
\* visualTesting.threshold is kept in thousandths: 100 is 0.1, 50 is 0.05
\* (0.1 * 1000 and 0.05 * 1000 are exactly 100 and 50 in double arithmetic)
VisualConfigs == [enabled : BOOLEAN, thresholdMilli : {100, 50}]
VisualDefault == [enabled |-> TRUE, thresholdMilli |-> 100]
NoShot == [entry |-> "none"]
NoValue == [kind |-> "undefined"]
NoCall == [op |-> "none"]
\* NaN, which no duration or counter of the model equals: what arithmetic on
\* the undefined testStartTime gives
NaN == -1
\* the initial value of ReportingUtils.testMetrics, and the one cleanup assigns;
\* averageDuration is kept as the fraction num / den
ZeroMetrics == [totalTests |-> 0, passedTests |-> 0, failedTests |-> 0, skippedTests |-> 0,
                totalDuration |-> 0, averageDuration |-> [num |-> 0, den |-> 1]]
NumWriters == 2
Writers == 1..NumWriters
IdleWriter == [pc |-> "idle", selector |-> "", newSelector |-> "", content |-> "", logs |-> <<>>]
Configs == [enabled : BOOLEAN, sensitivity : Sensitivities, maxRetries : 1..MaxRetriesBound]
DefaultConfig == [enabled |-> TRUE, sensitivity |-> "medium", maxRetries |-> 3]

NoInstance == [created |-> FALSE]
NoResult == [kind |-> "none", selector |-> "", attempts |-> 0]
NoArgs == [called |-> FALSE]

VARIABLES
  env,              \* Cypress.env('autoHealing')
  instance,         \* AutoHealing.instance: NoInstance or [created, config]
  healingLogs,      \* AutoHealing.healingLogs
  status,           \* "idle", "running", "returned" or "raised" (state of the last call)
  original,         \* originalSelector and elementType of the call in progress
  hint,
  attempts,         \* attemptFind's counter
  body,             \* $body of the current attempt: the selectors that match in it
  probed,           \* selectors given to $body.find in the current attempt, in order
  generations,      \* getHealingStrategies invocations of the call
  waits,            \* cy.wait commands the call has completed
  queue,            \* Cypress command queue: the commands of the call not yet run
                    \* (cy.task('log', ...) only prints and is left out)
  result,           \* what the call yielded: a selector or the thrown error
  taskResult,       \* what the updateLocator task of the call returned to cy.task
  testFile,         \* text of the spec file on disk
  logFile,          \* JSON array stored at config.reportPath ([] when absent)
  calls,            \* calls started so far
  logsAtCall,       \* Len(healingLogs) when the call started
  genArgs,          \* arguments of the last direct getHealingStrategies invocation
  pushed,           \* its local array `strategies' before the sensitivity filter
  generated         \* the array it returned

VARIABLES
  delays            \* successive getRetryDelay results: delays[k] follows attempt k
VARIABLES
  genFirst,         \* arguments and results of the first direct getHealingStrategies call
  genCount          \* direct getHealingStrategies calls made so far
VARIABLES
  writers           \* the updateLocator tasks running at once, one per Cypress process:
                    \* where each is, its arguments and what it has read
VARIABLES
  baselines,        \* the baseline file of each screenshot name: an image or MissingFile
  visEnv,           \* Cypress.env('visualTesting') of the run the comparison is part of
  shot,             \* the comparison under way: entry point, name, what cy.screenshot
                    \* captured, whether the file at actualPath can be read, whether
                    \* a baseline existed when the call started, and the baseline
                    \* the task read
  visPc,            \* the command of the comparison that runs next
  taskReturn,       \* what the compareImages task returned
  verdict,          \* how the call ended: what it yielded or the error that failed the test
  testResults,      \* VisualTesting.testResults
  visCalls          \* comparisons started so far
VARIABLES
  testRegistry,     \* TestClassification.testRegistry: test id -> metadata
  tagFilters,       \* TestClassification.tagFilters
  priorityFilters,  \* TestClassification.priorityFilters
  lastCall,         \* the last TestClassification call that returned a value
  suitesCreated     \* createTestSuite calls so far
VARIABLES
  chain,            \* the custom command under way: its name and arguments
  cyQueue,          \* commands it has enqueued and Cypress has not run yet
  tries,            \* getWithHealing's `attempts'
  cyWaits,          \* cy.wait commands completed
  resolutions,      \* getWithHealing invocations
  subject,          \* selector of the element the chain currently yields ("" if none)
  domActions,       \* click / type actions performed, in order
  outcome,          \* "idle", "running", "passed" or "failed", with the error thrown
  invoked           \* custom commands invoked so far
VARIABLES
  testMetrics,      \* ReportingUtils.testMetrics
  testStartTime,    \* ReportingUtils.testStartTime
  lastOp,           \* the last ReportingUtils call: its name, argument and return value
  reportCalls       \* ReportingUtils calls so far
VARIABLES
  apiCall,          \* the polling call under way: function, what it waits for, maxAttempts
  apiQueue,         \* commands it has enqueued and Cypress has not run yet
  apiAttempts,      \* its `attempts'
  responses,        \* the responses its GET requests have received, in order
  apiWaits,         \* cy.wait commands completed
  apiResult,        \* how it ended: the response it yielded or the error that failed the test
  apiCalls          \* polling calls started so far

callVars == <<status, original, hint, attempts, body, probed, generations, waits,
              queue, result, taskResult, calls, logsAtCall>>
fsVars == <<testFile, logFile>>
genVars == <<genArgs, pushed, generated>>
delayVars == <<delays>>
healVars == <<env, instance, healingLogs, callVars, fsVars, genVars>>
cmdVars == <<chain, cyQueue, tries, cyWaits, resolutions, subject, domActions,
             outcome, invoked>>
idemVars == <<genFirst, genCount>>
raceVars == <<writers>>
visVars == <<baselines, visEnv, shot, visPc, taskReturn, verdict, testResults, visCalls>>
classVars == <<testRegistry, tagFilters, priorityFilters, lastCall, suitesCreated>>
reportVars == <<testMetrics, testStartTime, lastOp, reportCalls>>
apiVars == <<apiCall, apiQueue, apiAttempts, responses, apiWaits, apiResult, apiCalls>>
restVars == <<delayVars, cmdVars, idemVars, raceVars, visVars, classVars, reportVars, apiVars>>
notDelayVars == <<healVars, cmdVars, idemVars, raceVars, visVars, classVars, reportVars, apiVars>>
notCmdVars == <<env, instance, healingLogs, callVars, genVars, delayVars, idemVars, raceVars,
                visVars, classVars, reportVars, apiVars>>
notRaceVars == <<env, instance, healingLogs, callVars, genVars, delayVars, cmdVars, idemVars,
                 visVars, classVars, reportVars, apiVars>>
notVisVars == <<healVars, delayVars, cmdVars, idemVars, raceVars, classVars, reportVars, apiVars>>
notClassVars == <<healVars, fsVars, delayVars, cmdVars, idemVars, raceVars, visVars,
                  reportVars, apiVars>>
notReportVars == <<healVars, delayVars, cmdVars, idemVars, raceVars, visVars, classVars, apiVars>>
notApiVars == <<healVars, delayVars, cmdVars, idemVars, raceVars, visVars, classVars, reportVars>>
vars == <<env, instance, healingLogs, callVars, fsVars, genVars, restVars>>

Command(cmd, selector, newSelector, ms) ==
  [cmd |-> cmd, selector |-> selector, newSelector |-> newSelector, ms |-> ms]
CmdBody == Command("body", "", "", 0)
CmdGet(selector) == Command("get", selector, "", 0)
CmdWait(ms) == Command("wait", "", "", ms)
CmdUpdateLocator(selector, newSelector) == Command("updateLocator", selector, newSelector, 0)

Init ==
  /\ env \in Configs \cup {Undefined}
  /\ instance = NoInstance
  /\ healingLogs = <<>>
  /\ status = "idle"
  /\ original = ""
  /\ hint = NoType
  /\ attempts = 0
  /\ body = {}
  /\ probed = <<>>
  /\ generations = 0
  /\ waits = 0
  /\ queue = <<>>
  /\ result = NoResult
  /\ taskResult = "none"
  /\ testFile = SpecFileText
  /\ logFile = <<>>
  /\ calls = 0
  /\ logsAtCall = 0
  /\ genArgs = NoArgs
  /\ pushed = <<>>
  /\ generated = <<>>
  /\ delays = <<>>
  /\ testRegistry = << >>
  /\ tagFilters = << >>
  /\ priorityFilters = << >>
  /\ lastCall = NoCall
  /\ suitesCreated = 0
  /\ baselines = [name \in Names |-> MissingFile]
  /\ visEnv = Undefined
  /\ shot = NoShot
  /\ visPc = "idle"
  /\ taskReturn = NoValue
  /\ verdict = [status |-> "none", value |-> NoValue, error |-> ""]
  /\ testResults = <<>>
  /\ visCalls = 0
  /\ writers = [w \in Writers |-> IdleWriter]
  /\ genFirst = NoArgs
  /\ genCount = 0
  /\ chain = [name |-> "none", selector |-> "", text |-> ""]
  /\ cyQueue = <<>>
  /\ tries = 0
  /\ cyWaits = 0
  /\ resolutions = 0
  /\ subject = ""
  /\ domActions = <<>>
  /\ outcome = [status |-> "idle", error |-> [kind |-> "none"]]
  /\ invoked = 0
  /\ testMetrics = ZeroMetrics
  /\ testStartTime = NaN
  /\ lastOp = NoCall
  /\ reportCalls = 0
  /\ apiCall = NoCall
  /\ apiQueue = <<>>
  /\ apiAttempts = 0
  /\ responses = <<>>
  /\ apiWaits = 0
  /\ apiResult = NoValue
  /\ apiCalls = 0

\* AutoHealing constructor
NewInstance(e) == [created |-> TRUE, config |-> IF e = Undefined THEN DefaultConfig ELSE e]

\* AutoHealing.getInstance
\* a getInstance that constructs a new AutoHealing on every call
getInstanceFresh == NewInstance(env)
getInstance == IF instance = NoInstance THEN NewInstance(env) ELSE instance

\* AutoHealing.findElement: the commands it enqueues before it returns, the
\* plain cy.get when healing is disabled and otherwise the cy.get('body') of
\* the first attemptFind
\* a findElement without the `if (!this.config.enabled)' return
findElementAlwaysHeals(config, selector) == <<CmdBody>>
findElement(config, selector) ==
  IF ~config.enabled THEN <<CmdGet(selector)>> ELSE <<CmdBody>>

\* AutoHealing.findElementWithHealing -> findElement, up to `return attemptFind()'
FindElementWithHealing(selector, type) ==
  /\ status \in {"idle", "returned", "raised"}
  /\ calls < MaxCalls
  /\ instance' = getInstance
  /\ calls' = calls + 1
  /\ status' = "running"
  /\ original' = selector
  /\ hint' = type
  /\ attempts' = 0
  /\ body' = {}
  /\ probed' = <<>>
  /\ generations' = 0
  /\ waits' = 0
  /\ result' = NoResult
  /\ taskResult' = "none"
  /\ logsAtCall' = Len(healingLogs)
  /\ queue' = findElement(instance'.config, selector)
  /\ UNCHANGED <<env, healingLogs, fsVars, genVars, restVars>>

\* AutoHealing.getRetryDelay: Math.random() is in [0, 1), so the jitter is in
\* [0, delay / 10); the model takes whole milliseconds
\* getRetryDelay without the Math.min cap
RetryDelaysUncapped(attempt) ==
  LET baseDelay == 1000
      delay == baseDelay * 2 ^ (attempt - 1)
  IN  {delay + jitter : jitter \in {0, (delay \div 10) - 1}}

RetryDelays(attempt) ==
  LET baseDelay == 1000
      maxDelay == 5000
      pow == 2 ^ (attempt - 1)
      delay == IF baseDelay * pow < maxDelay THEN baseDelay * pow ELSE maxDelay
  IN  {delay + jitter : jitter \in {0, (delay \div 10) - 1}}

\* the HealingLog pushed when a fallback selector matched (new Date() is left out)
FoundLogSwapped(selector, newSelector, type) ==
  [testFile |-> SpecFile, oldSelector |-> newSelector, newSelector |-> selector,
   action |-> "element_found", elementType |-> IF Truthy(type) THEN type ELSE "unknown"]
FoundLog(selector, newSelector, type) ==
  [testFile |-> SpecFile, oldSelector |-> selector, newSelector |-> newSelector,
   action |-> "element_found", elementType |-> IF Truthy(type) THEN type ELSE "unknown"]

\* the HealingLog pushed when all attempts failed
FailedLogAsFound(selector, type) ==
  [testFile |-> SpecFile, oldSelector |-> selector, newSelector |-> "",
   action |-> "element_found", elementType |-> IF Truthy(type) THEN type ELSE "unknown"]
FailedLog(selector, type) ==
  [testFile |-> SpecFile, oldSelector |-> selector, newSelector |-> "",
   action |-> "healing_failed", elementType |-> IF Truthy(type) THEN type ELSE "unknown"]

\* the Error thrown at the end of attemptFind; its message names the
\* original selector and maxRetries
NotFoundError(selector, maxRetries) ==
  [kind |-> "error", selector |-> selector, attempts |-> maxRetries]

\* candidates of the strategies in probing order (the two nested for loops)
Candidates(strats) ==
  Flatten([i \in 1..Len(strats) |->
            [j \in 1..Len(strats[i].selectors) |->
               [selector |-> strats[i].selectors[j],
                priority |-> strats[i].priority,
                index |-> j]]])

\* getHealingStrategies(selector, type) under this.config.sensitivity for every
\* invocation the model makes, evaluated once: the array before the filter,
\* the array returned, and the returned candidates in probing order
strategyRows ==
  {[selector |-> selector, type |-> type, sensitivity |-> sensitivity,
    pushed |-> pushedStrategies(selector, type, sensitivity),
    returned |-> getHealingStrategies(selector, type, sensitivity),
    candidates |-> Candidates(getHealingStrategies(selector, type, sensitivity))] :
     selector \in Selectors \cup GenSelectors, type \in ElementTypes \cup GenTypes,
     sensitivity \in Sensitivities \cup {NoSensitivity}}
strategiesOf(selector, type, sensitivity) ==
  CHOOSE row \in strategyRows : /\ row.selector = selector
                                /\ row.type = type
                                /\ row.sensitivity = sensitivity
candidatesOf(selector, type, sensitivity) == strategiesOf(selector, type, sensitivity).candidates

\* $body.find(selector).length > 0
FoundAlways(snap, selector) == TRUE
Found(snap, selector) == selector \in snap

\* the candidate the nested loops return: the first one that matches
LastHit(hits) == CHOOSE k \in hits : \A j \in hits : j <= k
FirstHit(hits) == Min(hits)

\* control flow of the attemptFind callback, given what the probes found:
\* "original"  return cy.get(originalSelector)
\* "healed"    a candidate matched: log, suggest, return cy.get(selector)
\* "retry"     cy.wait(...) and attemptFind() again
\* "failed"    log healing_failed and throw
BranchCandidatesFirst(originalFound, candidateFound, n, maxRetries) ==
  IF n <= maxRetries /\ candidateFound THEN "healed"
  ELSE IF originalFound THEN "original"
  ELSE IF n <= maxRetries /\ n < maxRetries THEN "retry"
  ELSE "failed"
BranchWaitAfterLast(originalFound, candidateFound, n, maxRetries) ==
  IF originalFound THEN "original"
  ELSE IF n <= maxRetries /\ candidateFound THEN "healed"
  ELSE IF n <= maxRetries THEN "retry"
  ELSE "failed"
BranchUnbounded(originalFound, candidateFound, n, maxRetries) ==
  IF originalFound THEN "original"
  ELSE IF candidateFound THEN "healed"
  ELSE "retry"
\* the original selector tried in the first attempt only
BranchOriginalOnce(originalFound, candidateFound, n, maxRetries) ==
  IF originalFound /\ n = 1 THEN "original"
  ELSE IF n <= maxRetries /\ candidateFound THEN "healed"
  ELSE IF n <= maxRetries /\ n < maxRetries THEN "retry"
  ELSE "failed"
Branch(originalFound, candidateFound, n, maxRetries) ==
  IF originalFound THEN "original"
  ELSE IF n <= maxRetries /\ candidateFound THEN "healed"
  ELSE IF n <= maxRetries /\ n < maxRetries THEN "retry"
  ELSE "failed"

\* the callback of cy.get('body').then in attemptFind
AttemptFind ==
  /\ status = "running"
  /\ queue # <<>> /\ Head(queue).cmd = "body"
  /\ \E snap \in Snapshots :
     \E cands \in {candidatesOf(original, hint, instance.config.sensitivity)} :
     \E hits \in {{k \in 1..Len(cands) : Found(snap, cands[k].selector)}} :
       LET maxRetries == instance.config.maxRetries
           n          == attempts + 1
           all        == [i \in 1..Len(cands) |-> cands[i].selector]
           branch     == Branch(Found(snap, original), hits # {}, n, maxRetries)
       IN
       /\ attempts' = n
       /\ body' = snap
       /\ generations' = IF branch # "original" /\ n <= maxRetries
                         THEN generations + 1 ELSE generations
       /\ CASE branch = "original" ->
                 /\ probed' = <<original>>
                 /\ queue' = <<CmdGet(original)>> \o Tail(queue)
                 /\ UNCHANGED <<healingLogs, status, result>>
            [] branch = "healed" ->
                 \E k \in {FirstHit(hits)} :
                 /\ probed' = <<original>> \o SubSeq(all, 1, k)
                 /\ healingLogs' = Append(healingLogs, FoundLog(original, cands[k].selector, hint))
                 /\ queue' = <<CmdUpdateLocator(original, cands[k].selector),
                               CmdGet(cands[k].selector)>> \o Tail(queue)
                 /\ UNCHANGED <<status, result>>
            [] branch = "retry" ->
                 /\ probed' = <<original>> \o all
                 /\ \E ms \in RetryDelays(n) :
                      queue' = <<CmdWait(ms), CmdBody>> \o Tail(queue)
                 /\ UNCHANGED <<healingLogs, status, result>>
            [] OTHER ->
                 \* The throw fails the test and stops the queue: the
                 \* updateLocator task enqueued by logHealingAction never runs.
                 /\ probed' = <<original>> \o (IF n <= maxRetries THEN all ELSE <<>>)
                 /\ healingLogs' = Append(healingLogs, FailedLog(original, hint))
                 /\ queue' = <<CmdUpdateLocator(original, "")>> \o Tail(queue)
                 /\ status' = "raised"
                 /\ result' = NotFoundError(original, maxRetries)
  /\ UNCHANGED <<env, instance, original, hint, waits, taskResult, calls, logsAtCall,
                 fsVars, genVars, restVars>>

\* cy.wait(ms)
Wait ==
  /\ status = "running"
  /\ queue # <<>> /\ Head(queue).cmd = "wait"
  /\ waits' = waits + 1
  /\ queue' = Tail(queue)
  /\ UNCHANGED <<env, instance, healingLogs, status, original, hint, attempts,
                 body, probed, generations, result, taskResult, calls, logsAtCall,
                 fsVars, genVars, restVars>>

\* String.prototype.replace(pattern, replacement) with a string pattern:
\* the first occurrence only
replaceFirst(content, pattern, replacement) ==
  LET at == {i \in 1..Len(content) : At(content, i, pattern)}
  IN  IF pattern = "" THEN replacement \o content
      ELSE IF at = {} THEN content
      ELSE LET i == Min(at)
           IN  SubSeq(content, 1, i - 1) \o replacement
               \o SubSeq(content, i + Len(pattern), Len(content))

\* what the updateLocator task hands back to cy.task: its catch turns every
\* file-system failure into a returned { success: false, error }
UpdateLocatorUncaught(failure) == IF failure = "none" THEN "success" ELSE "throws"
UpdateLocatorResult(failure) == IF failure = "none" THEN "success" ELSE "failure"

\* the updateLocator task of cypress.config; failure is where the file system
\* fails: nowhere, on the spec file (read or write), or on the log file
\* (after the spec file was rewritten)
TaskUpdateLocator ==
  /\ status = "running"
  /\ queue # <<>> /\ Head(queue).cmd = "updateLocator"
  /\ \E failure \in {"none", "testFile", "logFile"} :
       LET c == Head(queue)
           healingLog == [testFile |-> SpecFile, oldSelector |-> c.selector,
                          newSelector |-> c.newSelector, action |-> "locator_updated"]
           returned == UpdateLocatorResult(failure)
       IN
       /\ testFile' = IF failure = "testFile" THEN testFile
                      ELSE replaceFirst(testFile, c.selector, c.newSelector)
       /\ logFile' = IF failure = "none" THEN Append(logFile, healingLog) ELSE logFile
       /\ taskResult' = returned
       /\ queue' = Tail(queue)
       /\ IF returned = "throws"
          THEN \* a task that throws fails cy.task, and with it the test
               /\ status' = "raised"
               /\ result' = [kind |-> "taskError", selector |-> c.selector, attempts |-> 0]
          ELSE UNCHANGED <<status, result>>
  /\ UNCHANGED <<env, instance, healingLogs, original, hint, attempts,
                 body, probed, generations, waits, calls, logsAtCall, genVars, restVars>>

\* cy.get(selector), the chain findElement returns
Get ==
  /\ status = "running"
  /\ queue # <<>> /\ Head(queue).cmd = "get"
  /\ status' = "returned"
  /\ result' = [kind |-> "selector", selector |-> Head(queue).selector, attempts |-> attempts]
  /\ queue' = Tail(queue)
  /\ UNCHANGED <<env, instance, healingLogs, original, hint, attempts,
                 body, probed, generations, waits, taskResult, calls, logsAtCall,
                 fsVars, genVars, restVars>>

Call == \E selector \in Selectors, type \in ElementTypes : FindElementWithHealing(selector, type)

Next == Call \/ AttemptFind \/ Wait \/ TaskUpdateLocator \/ Get

Spec == Init /\ [][Next]_vars

\* The Cypress command queue runs every command it holds.
FairSpec == Spec /\ WF_vars(AttemptFind) /\ WF_vars(Wait)
                 /\ WF_vars(TaskUpdateLocator) /\ WF_vars(Get)

(***************************************************************************)
(* The backoff schedule: cy.wait(this.getRetryDelay(attempts)) after each   *)
(* failed attempt, for attempts = 1, 2, ...                                 *)
(***************************************************************************)
MaxDelays == 6

\* this.getRetryDelay(attempts) for the next failed attempt
GetRetryDelay ==
  /\ Len(delays) < MaxDelays
  /\ \E ms \in RetryDelays(Len(delays) + 1) : delays' = Append(delays, ms)
  /\ UNCHANGED notDelayVars

DelayNext == GetRetryDelay

DelaySpec == Init /\ [][DelayNext]_vars

(***************************************************************************)
(* updateLocator tasks of several Cypress processes working on the same     *)
(* files: each file-system call is one step.                                *)
(***************************************************************************)
WriterFallbacks == {"[data-testid=\"submit-btn\"]"}

\* logs.push(healingLog); fs.writeFileSync(logPath, JSON.stringify(logs)):
\* the array read earlier plus the new record replaces the file
WrittenLogsMerged(logs, current, healingLog) == Append(current, healingLog)
WrittenLogs(logs, current, healingLog) == Append(logs, healingLog)

\* the record the task of writer w pushes (the timestamp is left out)
WriterLog(w) == [testFile |-> SpecFile, oldSelector |-> writers[w].selector,
                 newSelector |-> writers[w].newSelector, action |-> "locator_updated"]

\* cy.task('updateLocator', { selector, newSelector, testFile }) reaches the task
StartWriter(w) ==
  /\ writers[w].pc = "idle"
  /\ \E selector \in Selectors, newSelector \in WriterFallbacks :
       writers' = [writers EXCEPT ![w] = [pc |-> "readTest", selector |-> selector,
                                          newSelector |-> newSelector,
                                          content |-> "", logs |-> <<>>]]
  /\ UNCHANGED <<fsVars, notRaceVars>>

\* let content = fs.readFileSync(filePath, 'utf8')
ReadTestFile(w) ==
  /\ writers[w].pc = "readTest"
  /\ writers' = [writers EXCEPT ![w].pc = "writeTest", ![w].content = testFile]
  /\ UNCHANGED <<fsVars, notRaceVars>>

\* content = content.replace(selector, newSelector); fs.writeFileSync(filePath, content)
WriteTestFile(w) ==
  /\ writers[w].pc = "writeTest"
  /\ testFile' = replaceFirst(writers[w].content, writers[w].selector, writers[w].newSelector)
  /\ writers' = [writers EXCEPT ![w].pc = "readLog", ![w].content = testFile']
  /\ UNCHANGED <<logFile, notRaceVars>>

\* logs = fs.existsSync(logPath) ? JSON.parse(fs.readFileSync(logPath)) : []
ReadLogFile(w) ==
  /\ writers[w].pc = "readLog"
  /\ writers' = [writers EXCEPT ![w].pc = "writeLog", ![w].logs = logFile]
  /\ UNCHANGED <<fsVars, notRaceVars>>

\* logs.push(healingLog); fs.writeFileSync(logPath, ...); return { success: true }
WriteLogFile(w) ==
  /\ writers[w].pc = "writeLog"
  /\ logFile' = WrittenLogs(writers[w].logs, logFile, WriterLog(w))
  /\ writers' = [writers EXCEPT ![w].pc = "done"]
  /\ UNCHANGED <<testFile, notRaceVars>>

\* a file-system call throws: the catch returns { success: false, error }
WriterFails(w) ==
  /\ writers[w].pc \in {"readTest", "writeTest", "readLog", "writeLog"}
  /\ writers' = [writers EXCEPT ![w].pc = "failed"]
  /\ UNCHANGED <<fsVars, notRaceVars>>

RaceNext ==
  \E w \in Writers :
    \/ StartWriter(w) \/ ReadTestFile(w) \/ WriteTestFile(w)
    \/ ReadLogFile(w) \/ WriteLogFile(w) \/ WriterFails(w)

RaceSpec == Init /\ [][RaceNext]_vars

(***************************************************************************)
(* updateLocator tasks run one after the other by a single Cypress process: *)
(* each task is one step.  The log file is read with JSON.parse and written *)
(* back with JSON.stringify; logFile holds the parsed value of its text.    *)
(***************************************************************************)
MaxAppends == 3
SerialFallbacks == {"[data-testid=\"submit-btn\"]", "a:contains(\"submit btn\")"}

RECURSIVE jsonEscape(_, _)
\* JSON.stringify of a string, between the quotes: " and \ get a backslash
jsonEscape(str, i) ==
  IF i > Len(str) THEN ""
  ELSE (IF Char(str, i) \in {"\"", "\\"} THEN "\\" \o Char(str, i) ELSE Char(str, i))
       \o jsonEscape(str, i + 1)

RECURSIVE jsonUnescape(_, _)
\* JSON.parse of a string literal, between the quotes: a backslash stands for
\* the character after it
jsonUnescapeVerbatim(text, i) == SubSeq(text, i, Len(text))
jsonUnescape(text, i) ==
  IF i > Len(text) THEN ""
  ELSE IF Char(text, i) = "\\" THEN Char(text, i + 1) \o jsonUnescape(text, i + 2)
  ELSE Char(text, i) \o jsonUnescape(text, i + 1)

\* JSON.stringify(logs): every record with its string fields as JSON literals
\* (the array and object punctuation is left out)
JsonStringify(logs) ==
  [i \in 1..Len(logs) |->
     [f \in DOMAIN logs[i] |-> "\"" \o jsonEscape(logs[i][f], 1) \o "\""]]

\* JSON.parse(text) of such a text
JsonParse(text) ==
  [i \in 1..Len(text) |->
     [f \in DOMAIN text[i] |-> jsonUnescape(SubSeq(text[i][f], 2, Len(text[i][f]) - 1), 1)]]

\* the updateLocator task of cypress.config, from the call to its return;
\* failure is where the file system fails, as in TaskUpdateLocator
SerialUpdateLocator(selector, newSelector) ==
  /\ Len(logFile) < MaxAppends
  /\ \E failure \in {"none", "testFile", "logFile"} :
       LET healingLog == [testFile |-> SpecFile, oldSelector |-> selector,
                          newSelector |-> newSelector, action |-> "locator_updated"]
           logs == JsonParse(JsonStringify(logFile))
       IN
       /\ testFile' = IF failure = "testFile" THEN testFile
                      ELSE replaceFirst(testFile, selector, newSelector)
       /\ logFile' = IF failure = "none"
                     THEN JsonParse(JsonStringify(WrittenLogs(logs, logFile, healingLog)))
                     ELSE logFile
  /\ UNCHANGED <<env, instance, healingLogs, callVars, genVars, restVars>>

SerialNext ==
  \E selector \in Selectors, newSelector \in SerialFallbacks :
    SerialUpdateLocator(selector, newSelector)

SerialSpec == Init /\ [][SerialNext]_vars

(***************************************************************************)
(* Visual comparison: VisualTesting.compareScreenshot, the compareSnapshot  *)
(* command and the compareImages task.                                      *)
(***************************************************************************)
\* the tasks cypress.config registers with on('task', ...)
RegisteredTasks == {"writeAllureResults", "log", "updateLocator", "compareImages"}

VisResult(passed, diffPixels) == [kind |-> "result", passed |-> passed, diffPixels |-> diffPixels]
VisError(message) == [kind |-> "error", error |-> message]
Abs(n) == IF n < 0 THEN 0 - n ELSE n

\* length of the RGBA buffer PNG.sync.read yields
DataLength(image) == image.width * image.height * 4

\* pixelmatch(img1, img2, output, width, height, options): throws when the two
\* buffers differ in length or do not have width * height pixels, otherwise
\* counts the pixels that differ (a black and a white pixel differ under every
\* threshold below 1)
pixelmatch(img1, img2, width, height) ==
  IF DataLength(img1) # DataLength(img2) THEN VisError("Image sizes do not match.")
  ELSE IF DataLength(img1) # width * height * 4
       THEN VisError("Image data size does not match width/height.")
  ELSE [kind |-> "count", numDiffPixels |-> Abs(img1.dark - img2.dark)]

\* what the task returns for a completed pixelmatch
ComparedLenient(numDiffPixels) == VisResult(numDiffPixels <= 100, numDiffPixels)
Compared(numDiffPixels) == VisResult(numDiffPixels = 0, numDiffPixels)

\* the compareImages task of cypress.config: every exception ends in { error }
compareImages(baseline, actual, cfg) ==
  IF baseline = MissingFile \/ actual = MissingFile
  THEN VisError("ENOENT: no such file or directory")
  ELSE IF cfg = Undefined
  THEN VisError("Cannot read properties of undefined (reading 'threshold')")
  ELSE LET counted == pixelmatch(baseline, actual, baseline.width, baseline.height)
       IN  IF counted.kind = "error" THEN counted ELSE Compared(counted.numDiffPixels)

\* result.diffPixels > Cypress.env('visualTesting').threshold * 1000
ExceedsCutoffInclusive(diffPixels, cfg) == diffPixels >= cfg.thresholdMilli
ExceedsCutoff(diffPixels, cfg) == diffPixels > cfg.thresholdMilli

Yields(value) == [status |-> "returned", value |-> value, error |-> ""]
FailsTest(message) == [status |-> "raised", value |-> NoValue, error |-> message]

\* `enabled' as each entry point reads it: VisualTesting from the config its
\* constructor built, compareSnapshot from Cypress.env('visualTesting')?.enabled
VisualEnabled(entry, cfg) ==
  IF entry = "compareScreenshot"
  THEN (IF cfg = Undefined THEN VisualDefault ELSE cfg).enabled
  ELSE cfg # Undefined /\ cfg.enabled

\* the captureBaseline command: cy.screenshot(`baseline/${name}`)
CaptureBaseline ==
  /\ visPc \in {"idle", "done"}
  /\ visCalls < MaxCalls
  /\ \E name \in Names, image \in Images :
       /\ baselines[name] # image
       /\ baselines' = [baselines EXCEPT ![name] = image]
  /\ UNCHANGED <<visEnv, shot, visPc, taskReturn, verdict, testResults, visCalls,
                 fsVars, notVisVars>>

\* VisualTesting.compareScreenshot(name) / cy.compareSnapshot(name), up to the
\* first command they enqueue
StartComparison(entry, name, cfg) ==
  /\ visPc \in {"idle", "done"}
  /\ visCalls < MaxCalls
  /\ visCalls' = visCalls + 1
  /\ visEnv' = cfg
  /\ shot' = [entry |-> entry, name |-> name, image |-> MissingFile, readable |-> FALSE,
              hadBaseline |-> baselines[name] # MissingFile, baseline |-> MissingFile]
  /\ taskReturn' = NoValue
  /\ IF VisualEnabled(entry, cfg)
     THEN /\ visPc' = "screenshot"
          /\ verdict' = [status |-> "none", value |-> NoValue, error |-> ""]
     ELSE /\ visPc' = "done"
          /\ verdict' = IF entry = "compareScreenshot"
                        THEN Yields(VisResult(TRUE, 0))
                        ELSE Yields(NoValue)
  /\ UNCHANGED <<baselines, testResults, fsVars, notVisVars>>

Compare ==
  \E entry \in {"compareScreenshot", "compareSnapshot"}, name \in Names,
     cfg \in VisualConfigs \cup {Undefined} : StartComparison(entry, name, cfg)

\* cy.screenshot: the page is captured; the file may or may not land at the
\* path the comparison reads as actualPath
Screenshot ==
  /\ visPc = "screenshot"
  /\ \E image \in Images, readable \in BOOLEAN :
       shot' = [shot EXCEPT !.image = image, !.readable = readable]
  /\ visPc' = "readFile"
  /\ UNCHANGED <<baselines, visEnv, taskReturn, verdict, testResults, visCalls,
                 fsVars, notVisVars>>

\* cy.readFile(baselinePath, 'base64') and the start of its callback. For a
\* file that does not exist the command either fails the test (what cy.readFile
\* does by default) or yields a falsy value (what the callback provides for).
ReadBaseline ==
  /\ visPc = "readFile"
  /\ IF baselines[shot.name] # MissingFile
     THEN /\ visPc' = "compareImages"
          /\ UNCHANGED verdict
     ELSE \/ /\ visPc' = "done"
             /\ verdict' = FailsTest("cy.readFile() failed because the file does not exist")
          \/ IF shot.entry = "compareScreenshot"
             THEN /\ visPc' = "copyFile"
                  /\ UNCHANGED verdict
             ELSE \* compareSnapshot logs `creating baseline' and returns
                  /\ visPc' = "done"
                  /\ verdict' = Yields(NoValue)
  /\ UNCHANGED <<baselines, visEnv, shot, taskReturn, testResults, visCalls,
                 fsVars, notVisVars>>

\* cy.task('copyFile', { source: actualPath, destination: baselinePath })
CopyFile ==
  /\ visPc = "copyFile"
  /\ visPc' = "done"
  /\ IF "copyFile" \in RegisteredTasks
     THEN /\ baselines' = [baselines EXCEPT ![shot.name] =
                             IF shot.readable THEN shot.image ELSE MissingFile]
          /\ verdict' = Yields(VisResult(TRUE, 0))
     ELSE /\ verdict' = FailsTest("The task 'copyFile' was not handled")
          /\ UNCHANGED baselines
  /\ UNCHANGED <<visEnv, shot, taskReturn, testResults, visCalls, fsVars, notVisVars>>

\* cy.task('compareImages', { baseline, actual, ... })
CompareImages ==
  /\ visPc = "compareImages"
  /\ taskReturn' = compareImages(baselines[shot.name],
                                 IF shot.readable THEN shot.image ELSE MissingFile, visEnv)
  /\ shot' = [shot EXCEPT !.baseline = baselines[shot.name]]
  /\ visPc' = "then"
  /\ UNCHANGED <<baselines, visEnv, verdict, testResults, visCalls, fsVars, notVisVars>>

\* the .then callback that receives the task's result
ThenResult ==
  /\ visPc = "then"
  /\ visPc' = "done"
  /\ IF shot.entry = "compareScreenshot"
     THEN /\ testResults' = Append(testResults, taskReturn)
          /\ verdict' = Yields(taskReturn)
     ELSE /\ UNCHANGED testResults
          /\ verdict' =
               IF taskReturn.kind = "error"
               THEN FailsTest("Visual comparison failed: " \o taskReturn.error)
               ELSE IF ~taskReturn.passed /\ ExceedsCutoff(taskReturn.diffPixels, visEnv)
               THEN FailsTest("Visual regression detected")
               ELSE Yields(NoValue)
  /\ UNCHANGED <<baselines, visEnv, shot, taskReturn, visCalls, fsVars, notVisVars>>

VisNext == CaptureBaseline \/ Compare \/ Screenshot \/ ReadBaseline \/ CopyFile
           \/ CompareImages \/ ThenResult

VisSpec == Init /\ [][VisNext]_vars

(***************************************************************************)
(* TestClassification: the registry of test metadata and the run filters.   *)
(***************************************************************************)
MaxSuites == 1
TestIds == {"login-test"}
NeverRegistered == "ghost-test"
SuiteNames == {"checkout"}
Metadata(tags, priority) == [tags |-> tags, priority |-> priority]
\* metadata handed to registerTest directly
RegisteredMetadata == {Metadata(<<"regression">>, "medium"), Metadata(<<"mobile">>, "critical")}
\* metadata.tags handed to categorizeAsSmokeTest: none, or the tags of the
\* login test (CommonTags.SMOKE, CRITICAL_PATH, HAPPY_PATH)
SmokeMetadataTags == {<< >>, <<"smoke", "critical-path", "happy-path">>}
\* the arrays handed to setTagFilter and setPriorityFilter
TagFilterInputs == {<< >>, <<"smoke">>, <<"regression">>, <<"suite:checkout">>}
PriorityFilterInputs == {<< >>, <<"critical">>, <<"critical", "high">>}

Range(seq) == {seq[i] : i \in 1..Len(seq)}
\* Map.prototype.set / delete / has on a map kept as a function
MapSet(map, key, value) == [k \in DOMAIN map \cup {key} |-> IF k = key THEN value ELSE map[k]]
MapDelete(map, key) == [k \in DOMAIN map \ {key} |-> map[k]]
MapHas(map, key) == key \in DOMAIN map

\* TestClassification.shouldRunTest(testId), read off the registry and filters
shouldRunTestEveryTag(registry, tagFilter, priorityFilter, testId) ==
  IF ~MapHas(registry, testId) THEN TRUE
  ELSE LET metadata == registry[testId]
           hasMatchingTag == \A i \in 1..Len(metadata.tags) :
                               \E j \in 1..Len(tagFilter) : tagFilter[j] = metadata.tags[i]
       IN  IF Len(tagFilter) > 0 /\ ~hasMatchingTag THEN FALSE
           ELSE IF Len(priorityFilter) > 0
                   /\ ~(\E j \in 1..Len(priorityFilter) : priorityFilter[j] = metadata.priority)
           THEN FALSE
           ELSE TRUE

shouldRunTest(registry, tagFilter, priorityFilter, testId) ==
  IF ~MapHas(registry, testId) THEN TRUE
  ELSE LET metadata == registry[testId]
           hasMatchingTag == \E i \in 1..Len(metadata.tags) :
                               \E j \in 1..Len(tagFilter) : tagFilter[j] = metadata.tags[i]
       IN  IF Len(tagFilter) > 0 /\ ~hasMatchingTag THEN FALSE
           ELSE IF Len(priorityFilter) > 0
                   /\ ~(\E j \in 1..Len(priorityFilter) : priorityFilter[j] = metadata.priority)
           THEN FALSE
           ELSE TRUE

\* TestClassification.getTestsByTag(tag): the registered tests whose tags
\* include the tag
getTestsByTag(registry, tag) ==
  [k \in {k \in DOMAIN registry : tag \in Range(registry[k].tags)} |-> registry[k]]

\* TestClassification.getTagStatistics(): for every tag, how many entries of
\* the tags arrays of the registered tests hold it
getTagStatistics(registry) ==
  LET entries == UNION {{<<k, i>> : i \in 1..Len(registry[k].tags)} : k \in DOMAIN registry}
      tagOf(e) == registry[e[1]].tags[e[2]]
  IN  [t \in {tagOf(e) : e \in entries} |-> Cardinality({e \in entries : tagOf(e) = t})]

\* TestClassification.registerTest(testId, metadata)
RegisterTest ==
  /\ \E testId \in TestIds, metadata \in RegisteredMetadata :
       testRegistry' = MapSet(testRegistry, testId, metadata)
  /\ lastCall' = NoCall
  /\ UNCHANGED <<tagFilters, priorityFilters, suitesCreated, notClassVars>>

\* TestClassification.categorizeAsSmokeTest(testId, metadata): tags 'smoke' and
\* 'critical-path' followed by metadata.tags, priority 'critical'
CategorizeAsSmokeTest ==
  /\ \E testId \in TestIds, metadataTags \in SmokeMetadataTags :
       testRegistry' = MapSet(testRegistry, testId,
                              Metadata(<<"smoke", "critical-path">> \o metadataTags, "critical"))
  /\ lastCall' = NoCall
  /\ UNCHANGED <<tagFilters, priorityFilters, suitesCreated, notClassVars>>

\* TestClassification.createTestSuite(suiteName, testIds): every listed test
\* that is registered gets the tag suite:<name>, then the suite itself is
\* registered under suite-<name>
CreateTestSuite ==
  /\ suitesCreated < MaxSuites
  /\ suitesCreated' = suitesCreated + 1
  /\ \E suiteName \in SuiteNames, testIds \in SUBSET (TestIds \cup {NeverRegistered}) :
       LET tagged == [k \in DOMAIN testRegistry |->
                        IF k \in testIds
                        THEN [testRegistry[k] EXCEPT
                                !.tags = Append(testRegistry[k].tags, "suite:" \o suiteName)]
                        ELSE testRegistry[k]]
       IN  testRegistry' = MapSet(tagged, "suite-" \o suiteName,
                                  Metadata(<<"suite:" \o suiteName>>, "medium"))
  /\ lastCall' = NoCall
  /\ UNCHANGED <<tagFilters, priorityFilters, notClassVars>>

\* TestClassification.setTagFilter(tags), as called by testExecutionHelpers
SetTagFilter ==
  /\ \E tagList \in TagFilterInputs : tagFilters' = tagList
  /\ tagFilters' # tagFilters
  /\ lastCall' = NoCall
  /\ UNCHANGED <<testRegistry, priorityFilters, suitesCreated, notClassVars>>

\* TestClassification.setPriorityFilter(priorities)
SetPriorityFilter ==
  /\ \E priorities \in PriorityFilterInputs : priorityFilters' = priorities
  /\ priorityFilters' # priorityFilters
  /\ lastCall' = NoCall
  /\ UNCHANGED <<testRegistry, tagFilters, suitesCreated, notClassVars>>

\* TestClassification.removeTest(testId)
RemoveTest ==
  /\ \E testId \in DOMAIN testRegistry \cup {NeverRegistered} :
       /\ testRegistry' = MapDelete(testRegistry, testId)
       /\ lastCall' = [op |-> "removeTest", testId |-> testId,
                       value |-> MapHas(testRegistry, testId)]
  /\ UNCHANGED <<tagFilters, priorityFilters, suitesCreated, notClassVars>>

\* TestClassification.clearRegistry()
ClearRegistry ==
  /\ <<testRegistry, tagFilters, priorityFilters>> # << << >>, << >>, << >> >>
  /\ testRegistry' = << >>
  /\ tagFilters' = << >>
  /\ priorityFilters' = << >>
  /\ lastCall' = NoCall
  /\ UNCHANGED <<suitesCreated, notClassVars>>

\* TestClassification.shouldRunTest(testId)
ShouldRunTest ==
  /\ \E testId \in DOMAIN testRegistry \cup TestIds \cup {NeverRegistered} :
       lastCall' = [op |-> "shouldRunTest", testId |-> testId,
                    value |-> shouldRunTest(testRegistry, tagFilters, priorityFilters, testId)]
  /\ UNCHANGED <<testRegistry, tagFilters, priorityFilters, suitesCreated, notClassVars>>

ClassNext == RegisterTest \/ CategorizeAsSmokeTest \/ CreateTestSuite \/ SetTagFilter
             \/ SetPriorityFilter \/ RemoveTest \/ ClearRegistry \/ ShouldRunTest

ClassSpec == Init /\ [][ClassNext]_vars

(***************************************************************************)
(* The custom commands of cypress/support/commands: getWithHealing and the  *)
(* wrappers clickWithHealing and typeWithHealing.                           *)
(***************************************************************************)
CmdSelectors == {"#submit-btn", ".navMenu"}
CmdTexts == {"hello"}
CmdDomPool == {"#submit-btn", ".navMenu", "[data-cy=\"submit-btn\"]",
               "[class*=\"navMenu\"]", "[title*=\"navMenu\"]"}
CmdSnapshots == {snap \in SUBSET CmdDomPool : Cardinality(snap) <= MaxMatches}

startsWith(str, prefix) == At(str, 1, prefix)
\* String.replace(/[#.]/, ''): the first '#' or '.' is removed
stripFirstMark(str) ==
  LET at == {i \in 1..Len(str) : Char(str, i) \in {"#", "."}}
  IN  IF at = {} THEN str
      ELSE SubSeq(str, 1, Min(at) - 1) \o SubSeq(str, Min(at) + 1, Len(str))

\* generateAlternativeSelectors(originalSelector)
generateAlternativeSelectors(selector) ==
  LET rest == SubSeq(selector, 2, Len(selector))
      bare == stripFirstMark(selector)
      testAttributes == <<"data-testid", "data-cy", "data-test", "aria-label", "title", "name">>
  IN  (IF startsWith(selector, "#")
       THEN << "[id=\"" \o rest \o "\"]", "[id*=\"" \o rest \o "\"]",
               "[data-testid=\"" \o rest \o "\"]", "[data-cy=\"" \o rest \o "\"]" >>
       ELSE <<>>)
      \o (IF startsWith(selector, ".")
          THEN << "[class*=\"" \o rest \o "\"]", "[data-testid*=\"" \o rest \o "\"]",
                  "[data-cy*=\"" \o rest \o "\"]" >>
          ELSE <<>>)
      \o [i \in 1..Len(testAttributes) |-> "[" \o testAttributes[i] \o "*=\"" \o bare \o "\"]"]
      \o << ":contains(\"" \o bare \o "\")" >>

alternativesTable ==
  {[selector |-> selector, alternatives |-> generateAlternativeSelectors(selector)] :
     selector \in CmdSelectors}
alternativesOf(selector) ==
  (CHOOSE row \in alternativesTable : row.selector = selector).alternatives

CyCommand(cmd, selector, newSelector, text) ==
  [cmd |-> cmd, selector |-> selector, newSelector |-> newSelector, text |-> text]
NoError == [kind |-> "none"]
\* the Error getWithHealing throws
AutoHealingFailed(selector, maxRetries) ==
  [kind |-> "Auto-healing failed: Element not found", selector |-> selector,
   maxRetries |-> maxRetries]
\* the error of a cy.get that never finds its element
GetTimedOut(selector) == [kind |-> "Timed out retrying: Expected to find element",
                          selector |-> selector]

\* what a custom command enqueues: cy.getWithHealing(selector), then for the
\* wrappers .click() or .type(text) (the closing .then(() => {}) does nothing)
WrapperResolvesTwice(name, selector, text) ==
  << CyCommand("getWithHealing", selector, "", ""),
     CyCommand("getWithHealing", selector, "", "") >>
  \o (IF name = "clickWithHealing" THEN << CyCommand("click", "", "", "") >>
      ELSE IF name = "typeWithHealing" THEN << CyCommand("type", "", "", text) >>
      ELSE <<>>)

Wrapper(name, selector, text) ==
  << CyCommand("getWithHealing", selector, "", "") >>
  \o (IF name = "clickWithHealing" THEN << CyCommand("click", "", "", "") >>
      ELSE IF name = "typeWithHealing" THEN << CyCommand("type", "", "", text) >>
      ELSE <<>>)

\* a chain whose last command has run has passed
AfterRun(q) == [status |-> IF q = <<>> THEN "passed" ELSE "running", error |-> NoError]

\* the test calls cy.getWithHealing / cy.clickWithHealing / cy.typeWithHealing
Invoke(name, selector, text) ==
  /\ outcome.status \in {"idle", "passed", "failed"}
  /\ invoked < MaxCalls
  /\ invoked' = invoked + 1
  /\ chain' = [name |-> name, selector |-> selector, text |-> text]
  /\ cyQueue' = Wrapper(name, selector, text)
  /\ tries' = 0
  /\ cyWaits' = 0
  /\ resolutions' = 0
  /\ subject' = ""
  /\ domActions' = <<>>
  /\ outcome' = [status |-> "running", error |-> NoError]
  /\ UNCHANGED <<notCmdVars, fsVars>>

InvokeCommand ==
  \E name \in {"getWithHealing", "clickWithHealing", "typeWithHealing"},
     selector \in CmdSelectors, text \in CmdTexts :
       Invoke(name, selector, IF name = "typeWithHealing" THEN text ELSE "")

\* Cypress.env('autoHealing')?.enabled and autoHealingConfig.maxRetries || 3
HealingOn == env # Undefined /\ env.enabled
CmdMaxRetries == IF env.maxRetries = 0 THEN 3 ELSE env.maxRetries

\* the body of the getWithHealing command, up to its first cy command
GetWithHealing ==
  /\ outcome.status = "running"
  /\ cyQueue # <<>> /\ Head(cyQueue).cmd = "getWithHealing"
  /\ resolutions' = resolutions + 1
  /\ IF ~HealingOn
     THEN /\ cyQueue' = << CyCommand("get", Head(cyQueue).selector, "", "") >> \o Tail(cyQueue)
          /\ UNCHANGED tries
     ELSE /\ cyQueue' = << CyCommand("body", Head(cyQueue).selector, "", "") >> \o Tail(cyQueue)
          /\ tries' = 1
  /\ UNCHANGED <<chain, cyWaits, subject, domActions, outcome, invoked, notCmdVars, fsVars>>

\* the callback of cy.get('body').then in tryGet
TryGet ==
  /\ outcome.status = "running"
  /\ cyQueue # <<>> /\ Head(cyQueue).cmd = "body"
  /\ \E snap \in CmdSnapshots :
       LET selector == Head(cyQueue).selector
           alternatives == alternativesOf(selector)
           hits == {i \in 1..Len(alternatives) : alternatives[i] \in snap}
       IN
       IF selector \in snap
       THEN /\ cyQueue' = << CyCommand("get", selector, "", "") >> \o Tail(cyQueue)
            /\ UNCHANGED <<tries, outcome>>
       ELSE IF tries <= CmdMaxRetries
       THEN IF hits # {}
            THEN /\ cyQueue' = << CyCommand("updateLocator", selector, alternatives[Min(hits)], ""),
                                  CyCommand("get", alternatives[Min(hits)], "", "") >>
                               \o Tail(cyQueue)
                 /\ UNCHANGED <<tries, outcome>>
            ELSE /\ cyQueue' = << CyCommand("wait", "", "", ""),
                                  CyCommand("body", selector, "", "") >> \o Tail(cyQueue)
                 /\ tries' = tries + 1
                 /\ UNCHANGED outcome
       ELSE \* the throw fails the test: the commands still queued never run
            /\ outcome' = [status |-> "failed",
                           error |-> AutoHealingFailed(selector, CmdMaxRetries)]
            /\ cyQueue' = Tail(cyQueue)
            /\ UNCHANGED tries
  /\ UNCHANGED <<chain, cyWaits, resolutions, subject, domActions, invoked, notCmdVars, fsVars>>

\* cy.wait(1000)
CyWait ==
  /\ outcome.status = "running"
  /\ cyQueue # <<>> /\ Head(cyQueue).cmd = "wait"
  /\ cyWaits' = cyWaits + 1
  /\ cyQueue' = Tail(cyQueue)
  /\ UNCHANGED <<chain, tries, resolutions, subject, domActions, outcome, invoked,
                 notCmdVars, fsVars>>

\* cy.task('updateLocator', { selector, newSelector, testFile })
CyUpdateLocator ==
  /\ outcome.status = "running"
  /\ cyQueue # <<>> /\ Head(cyQueue).cmd = "updateLocator"
  /\ \E failure \in {"none", "testFile", "logFile"} :
       LET c == Head(cyQueue)
           healingLog == [testFile |-> SpecFile, oldSelector |-> c.selector,
                          newSelector |-> c.newSelector, action |-> "locator_updated"]
       IN
       /\ testFile' = IF failure = "testFile" THEN testFile
                      ELSE replaceFirst(testFile, c.selector, c.newSelector)
       /\ logFile' = IF failure = "none" THEN Append(logFile, healingLog) ELSE logFile
       /\ cyQueue' = Tail(cyQueue)
       /\ outcome' = IF UpdateLocatorResult(failure) = "throws"
                     THEN [status |-> "failed", error |-> [kind |-> "task failed"]]
                     ELSE outcome
  /\ UNCHANGED <<chain, tries, cyWaits, resolutions, subject, domActions, invoked, notCmdVars>>

\* cy.get(selector, options): yields the element or fails the test
CyGet ==
  /\ outcome.status = "running"
  /\ cyQueue # <<>> /\ Head(cyQueue).cmd = "get"
  /\ \E snap \in CmdSnapshots :
       IF Head(cyQueue).selector \in snap
       THEN /\ subject' = Head(cyQueue).selector
            /\ cyQueue' = Tail(cyQueue)
            /\ outcome' = AfterRun(Tail(cyQueue))
       ELSE /\ outcome' = [status |-> "failed", error |-> GetTimedOut(Head(cyQueue).selector)]
            /\ cyQueue' = Tail(cyQueue)
            /\ UNCHANGED subject
  /\ UNCHANGED <<chain, tries, cyWaits, resolutions, domActions, invoked, notCmdVars, fsVars>>

\* .click(options) / .type(text, options) on the yielded element
CyAction ==
  /\ outcome.status = "running"
  /\ cyQueue # <<>> /\ Head(cyQueue).cmd \in {"click", "type"}
  /\ domActions' = Append(domActions, [action |-> Head(cyQueue).cmd, selector |-> subject,
                                       text |-> Head(cyQueue).text])
  /\ cyQueue' = Tail(cyQueue)
  /\ outcome' = AfterRun(Tail(cyQueue))
  /\ UNCHANGED <<chain, tries, cyWaits, resolutions, subject, invoked, notCmdVars, fsVars>>

CmdNext == InvokeCommand \/ GetWithHealing \/ TryGet \/ CyWait \/ CyUpdateLocator
           \/ CyGet \/ CyAction

CmdSpec == Init /\ [][CmdNext]_vars

(***************************************************************************)
(* Direct invocations of the strategy generator.                           *)
(***************************************************************************)
\* AutoHealing.getInstance()
GetInstance ==
  /\ instance = NoInstance
  /\ instance' = getInstance
  /\ UNCHANGED <<env, healingLogs, callVars, fsVars, genVars, restVars>>

\* this.getHealingStrategies(selector, type)
GetHealingStrategies(selector, type) ==
  /\ instance # NoInstance
  /\ genArgs' = [called |-> TRUE, selector |-> selector, type |-> type]
  /\ pushed' = strategiesOf(selector, type, instance.config.sensitivity).pushed
  /\ generated' = strategiesOf(selector, type, instance.config.sensitivity).returned
  /\ UNCHANGED <<env, instance, healingLogs, callVars, fsVars, restVars>>

Generate == \E selector \in GenSelectors, type \in GenTypes : GetHealingStrategies(selector, type)

GenNext == GetInstance \/ Generate

GenSpec == Init /\ [][GenNext]_vars

(***************************************************************************)
(* Repeated strategy generation on one AutoHealing instance, with the other *)
(* operations that touch the instance or its environment in between.        *)
(***************************************************************************)
MaxGenerations == 2
MaxLogs == 1

\* { ...Cypress.env('autoHealing') }: spreading undefined gives an object
\* without properties; a missing `enabled' is falsy, a missing `maxRetries'
\* compares like 0 against the attempt counter
spreadEnv(e) ==
  IF e = Undefined THEN [enabled |-> FALSE, sensitivity |-> NoSensitivity, maxRetries |-> 0]
  ELSE e

\* healingUtils.enableHealing / disableHealing / setSensitivity
HealingUtils ==
  /\ \/ env' = [spreadEnv(env) EXCEPT !.enabled = TRUE]
     \/ env' = [spreadEnv(env) EXCEPT !.enabled = FALSE]
     \/ \E level \in Sensitivities : env' = [spreadEnv(env) EXCEPT !.sensitivity = level]
  /\ env' # env
  /\ UNCHANGED <<instance, healingLogs, callVars, fsVars, genVars, restVars>>

\* what a whole findElementWithHealing call leaves in the instance: the
\* singleton exists, and healingLogs has grown by the entry of a healed or an
\* exhausted resolution, or not at all
FindElementEffect ==
  /\ instance' = getInstance
  /\ \E selector \in Selectors :
       \/ UNCHANGED healingLogs
       \/ /\ Len(healingLogs) < MaxLogs
          /\ healingLogs' \in {Append(healingLogs, FoundLog(selector, "button", NoType)),
                               Append(healingLogs, FailedLog(selector, NoType))}
  /\ <<instance', healingLogs'>> # <<instance, healingLogs>>
  /\ UNCHANGED <<env, callVars, fsVars, genVars, restVars>>

\* AutoHealing.clearHealingLogs
ClearHealingLogs ==
  /\ instance # NoInstance
  /\ healingLogs # <<>>
  /\ healingLogs' = <<>>
  /\ UNCHANGED <<env, instance, callVars, fsVars, genVars, restVars>>

\* this.getHealingStrategies(selector, type), remembering the first call
Regenerate(selector, type) ==
  /\ instance # NoInstance
  /\ genCount < MaxGenerations
  /\ genCount' = genCount + 1
  /\ genArgs' = [called |-> TRUE, selector |-> selector, type |-> type]
  /\ pushed' = strategiesOf(selector, type, instance.config.sensitivity).pushed
  /\ generated' = strategiesOf(selector, type, instance.config.sensitivity).returned
  /\ genFirst' = IF genCount = 0
                 THEN [called |-> TRUE, selector |-> selector, type |-> type,
                       pushed |-> pushed', returned |-> generated']
                 ELSE genFirst
  /\ UNCHANGED <<env, instance, healingLogs, callVars, fsVars, delayVars, cmdVars, raceVars,
                 visVars, classVars, reportVars, apiVars>>

GenerateAgain == \E selector \in Selectors, type \in ElementTypes : Regenerate(selector, type)

IdemNext == GetInstance \/ GenerateAgain \/ HealingUtils \/ FindElementEffect
            \/ ClearHealingLogs

IdemSpec == Init /\ [][IdemNext]_vars

(***************************************************************************)
(* A resolution made after healingUtils calls: the test obtains the         *)
(* singleton at some point, changes the settings through healingUtils and   *)
(* then calls findElementWithHealing.                                       *)
(***************************************************************************)
\* healingUtils.* called before the resolution starts
UtilsBeforeCall == status = "idle" /\ HealingUtils

UtilNext == GetInstance \/ UtilsBeforeCall \/ Call \/ AttemptFind \/ Wait
            \/ TaskUpdateLocator \/ Get

UtilSpec == Init /\ [][UtilNext]_vars

(***************************************************************************)
(* ReportingUtils: the test timer and the counters of testMetrics.          *)
(***************************************************************************)
MaxReportCalls == 4
TestStatuses == {"passed", "failed", "skipped"}
\* Date.now() when startTestTimer runs, and when endTestTimer runs
TimerStart == 100
TimerEnds == {100, 140}

\* number + number, where NaN stays NaN
plus(a, b) == IF a = NaN \/ b = NaN THEN NaN ELSE a + b

\* ReportingUtils.recordTestResult(status) on testMetrics
\* a switch without the 'skipped' case
recordTestResultNoSkipped(metrics, testStatus) ==
  LET counted == [metrics EXCEPT
                    !.totalTests = @ + 1,
                    !.passedTests = IF testStatus = "passed" THEN @ + 1 ELSE @,
                    !.failedTests = IF testStatus = "failed" THEN @ + 1 ELSE @]
  IN  [counted EXCEPT !.averageDuration = [num |-> counted.totalDuration,
                                           den |-> counted.totalTests]]
recordTestResult(metrics, testStatus) ==
  LET counted == [metrics EXCEPT
                    !.totalTests = @ + 1,
                    !.passedTests = IF testStatus = "passed" THEN @ + 1 ELSE @,
                    !.failedTests = IF testStatus = "failed" THEN @ + 1 ELSE @,
                    !.skippedTests = IF testStatus = "skipped" THEN @ + 1 ELSE @]
  IN  [counted EXCEPT !.averageDuration = [num |-> counted.totalDuration,
                                           den |-> counted.totalTests]]

\* ReportingUtils.startTestTimer()
StartTestTimer ==
  /\ reportCalls < MaxReportCalls
  /\ reportCalls' = reportCalls + 1
  /\ testStartTime' = TimerStart
  /\ lastOp' = [op |-> "startTestTimer"]
  /\ UNCHANGED <<testMetrics, notReportVars>>

\* ReportingUtils.endTestTimer(): Date.now() - this.testStartTime is NaN when
\* the timer was never started
EndTestTimer ==
  /\ reportCalls < MaxReportCalls
  /\ reportCalls' = reportCalls + 1
  /\ \E now \in TimerEnds :
       LET duration == IF testStartTime = NaN THEN NaN ELSE now - testStartTime
       IN  /\ testMetrics' = [testMetrics EXCEPT !.totalDuration = plus(@, duration)]
           /\ lastOp' = [op |-> "endTestTimer", value |-> duration]
  /\ UNCHANGED <<testStartTime, notReportVars>>

\* ReportingUtils.recordTestResult(status)
RecordTestResult ==
  /\ reportCalls < MaxReportCalls
  /\ reportCalls' = reportCalls + 1
  /\ \E testStatus \in TestStatuses :
       /\ testMetrics' = recordTestResult(testMetrics, testStatus)
       /\ lastOp' = [op |-> "recordTestResult", status |-> testStatus]
  /\ UNCHANGED <<testStartTime, notReportVars>>

\* ReportingUtils.cleanup()
Cleanup ==
  /\ reportCalls < MaxReportCalls
  /\ reportCalls' = reportCalls + 1
  /\ testMetrics' = ZeroMetrics
  /\ lastOp' = [op |-> "cleanup"]
  /\ UNCHANGED <<testStartTime, notReportVars>>

ReportNext == StartTestTimer \/ EndTestTimer \/ RecordTestResult \/ Cleanup

ReportSpec == Init /\ [][ReportNext]_vars

(***************************************************************************)
(* APIKeywords.waitForApiResponse and pollUntilCondition: the recursive     *)
(* checkApi / poll loops over APIKeywords.get.                              *)
(***************************************************************************)
MaxAttemptsBound == 3     \* maxAttempts ranges over 1..MaxAttemptsBound
MaxApiCalls == 1          \* polling calls per behaviour

\* what a GET can answer: a status and whether the body reports ready
ApiResponses == [status : {200, 503}, ready : BOOLEAN]
ExpectedStatuses == {200, 404}
\* the conditionFn arguments: response.body.ready, and a condition never met
Conditions == {"ready", "never"}
conditionFn(condition, response) == condition = "ready" /\ response.ready

\* the test of the `then' callback of checkApi / poll: hand the response back
\* or wait and ask again
\* a test that gives up one attempt late
SettledOneLate(qualifies, n, maxAttempts) == qualifies \/ n > maxAttempts
Settled(qualifies, n, maxAttempts) == qualifies \/ n >= maxAttempts

\* response.status === expectedStatus, or conditionFn(response)
Qualifies(call, response) ==
  IF call.op = "waitForApiResponse" THEN response.status = call.expectedStatus
  ELSE conditionFn(call.condition, response)

ApiIdle == apiQueue = <<>> /\ (apiCall = NoCall \/ apiResult # NoValue)

\* APIKeywords.waitForApiResponse(url, expectedStatus, maxAttempts), up to
\* the return of the first checkApi()
WaitForApiResponse ==
  /\ ApiIdle /\ apiCalls < MaxApiCalls
  /\ \E expectedStatus \in ExpectedStatuses, maxAttempts \in 1..MaxAttemptsBound :
       apiCall' = [op |-> "waitForApiResponse", expectedStatus |-> expectedStatus,
                   condition |-> "", maxAttempts |-> maxAttempts]
  /\ apiCalls' = apiCalls + 1
  /\ apiAttempts' = 1
  /\ apiQueue' = <<"request">>
  /\ responses' = <<>>
  /\ apiWaits' = 0
  /\ apiResult' = NoValue
  /\ UNCHANGED notApiVars

\* APIKeywords.pollUntilCondition(url, conditionFn, maxAttempts), up to the
\* return of the first poll()
PollUntilCondition ==
  /\ ApiIdle /\ apiCalls < MaxApiCalls
  /\ \E condition \in Conditions, maxAttempts \in 1..MaxAttemptsBound :
       apiCall' = [op |-> "pollUntilCondition", expectedStatus |-> 0,
                   condition |-> condition, maxAttempts |-> maxAttempts]
  /\ apiCalls' = apiCalls + 1
  /\ apiAttempts' = 1
  /\ apiQueue' = <<"request">>
  /\ responses' = <<>>
  /\ apiWaits' = 0
  /\ apiResult' = NoValue
  /\ UNCHANGED notApiVars

\* the cy.request of APIKeywords.get and the `then' callback of checkApi /
\* poll.  failOnStatusCode is false, so every status is a response; a request
\* that gets no response (connection refused, timeout) fails the test.
ApiGet ==
  /\ apiQueue # <<>> /\ Head(apiQueue) = "request"
  /\ \/ /\ apiResult' = [kind |-> "error", message |-> "cy.request() failed"]
        /\ apiQueue' = <<>>
        /\ UNCHANGED <<apiAttempts, responses>>
     \/ \E response \in ApiResponses :
          /\ responses' = Append(responses, response)
          /\ IF Settled(Qualifies(apiCall, response), apiAttempts, apiCall.maxAttempts)
             THEN /\ apiResult' = [kind |-> "response", response |-> response]
                  /\ apiQueue' = Tail(apiQueue)
                  /\ UNCHANGED apiAttempts
             ELSE /\ apiQueue' = <<"wait", "request">> \o Tail(apiQueue)
                  /\ apiAttempts' = apiAttempts + 1
                  /\ UNCHANGED apiResult
  /\ UNCHANGED <<apiCall, apiWaits, apiCalls, notApiVars>>

\* cy.wait(delay)
ApiWait ==
  /\ apiQueue # <<>> /\ Head(apiQueue) = "wait"
  /\ apiWaits' = apiWaits + 1
  /\ apiQueue' = Tail(apiQueue)
  /\ UNCHANGED <<apiCall, apiAttempts, responses, apiResult, apiCalls, notApiVars>>

ApiNext == WaitForApiResponse \/ PollUntilCondition \/ ApiGet \/ ApiWait

ApiSpec == Init /\ [][ApiNext]_vars

\* The Cypress command queue runs every command it holds.
FairApiSpec == ApiSpec /\ WF_vars(ApiGet) /\ WF_vars(ApiWait)

(***************************************************************************)
(* Properties.                                                             *)
(***************************************************************************)
Enabled == instance # NoInstance /\ instance.config.enabled
maxRetriesOfCall == instance.config.maxRetries
Exhausted == status = "raised" /\ result.kind = "error"
\* the call returned a fallback selector
Healed == status = "returned" /\ Enabled /\ result.selector # original
\* the entries the call in progress has appended to healingLogs
Appended == SubSeq(healingLogs, logsAtCall + 1, Len(healingLogs))

\* the priority ceiling the specification gives each sensitivity
Ceiling(sensitivity) ==
  CASE sensitivity = "low" -> 2 [] sensitivity = "medium" -> 4 [] sensitivity = "high" -> 6

\* <<priority, index, selector>> of every candidate of a strategy of the call
\* within the ceiling, taken from the strategies as generated (before the filter)
PermittedCandidates ==
  LET P == strategiesOf(original, hint, instance.config.sensitivity).pushed
  IN  UNION {{<<P[i].priority, j, P[i].selectors[j]>> : j \in 1..Len(P[i].selectors)} :
               i \in {i \in 1..Len(P) : P[i].priority <= Ceiling(instance.config.sensitivity)}}
LexLeq(a, b) == a[1] < b[1] \/ (a[1] = b[1] /\ a[2] <= b[2])

\* the permitted candidates by ascending priority, then by index
PermittedInOrder ==
  LET P == strategiesOf(original, hint, instance.config.sensitivity).pushed
      ofPriority(p) == Flatten([i \in 1..Len(P) |->
                                  IF P[i].priority = p THEN P[i].selectors ELSE <<>>])
  IN  Flatten([p \in 1..Ceiling(instance.config.sensitivity) |-> ofPriority(p)])
IsPrefix(a, b) == Len(a) <= Len(b) /\ a = SubSeq(b, 1, Len(a))

\* C1: when the original selector matches in the snapshot of the first attempt,
\* the call returns it after that single probe: no strategy is generated, no
\* fallback is probed, no backoff wait happens, no healing-log entry is appended.
C1_FastPath ==
  (status \in {"running", "returned", "raised"} /\ attempts = 1 /\ original \in body) =>
     /\ probed = <<original>>
     /\ generations = 0
     /\ waits = 0
     /\ Appended = <<>>
     /\ \/ status = "running" /\ queue = <<CmdGet(original)>>
        \/ status = "returned" /\ result.kind = "selector" /\ result.selector = original
C1_Witness ==
  /\ status = "returned" /\ attempts = 1 /\ original \in body
  /\ result.selector = original /\ Cardinality(body) = 2

\* C2: a returned fallback selector is the candidate with the smallest
\* (strategy priority, index in the strategy) among the candidates of the
\* permitted strategies that match in the snapshot of the returning attempt.
C2_LowestPairWins ==
  Healed =>
    \E M \in {{m \in PermittedCandidates : m[3] \in body}} :
      /\ M # {}
      /\ \E m \in M : (\A o \in M : LexLeq(m, o)) /\ result.selector = m[3]
C2_Witness ==
  /\ Healed
  /\ \E m3, m5 \in PermittedCandidates :
       /\ m3[1] = 3 /\ m5[1] = 5 /\ m3[3] \in body /\ m5[3] \in body
       /\ result.selector = m3[3]

\* C3: the fallback probes of an attempt are, in order, a prefix of the candidates
\* of the strategies whose priority is within the sensitivity's ceiling (low 2,
\* medium 4, high 6) taken by ascending priority; a returned fallback is one of them.
C3_CeilingRespected ==
  (Enabled /\ attempts >= 1) =>
     /\ probed # <<>> /\ Head(probed) = original
     /\ IsPrefix(Tail(probed), PermittedInOrder)
     /\ Healed => \E m \in PermittedCandidates : m[3] = result.selector
C3_Witness ==
  /\ Enabled /\ status = "raised" /\ instance.config.sensitivity = "low"
  /\ "a:contains(\"submit btn\")" \in body
  /\ original = "#submit-btn"
  /\ Len(probed) > 1

BoundedAttempts ==
  Enabled =>
     /\ attempts <= maxRetriesOfCall
     /\ Len(queue) <= 2
     /\ (attempts = maxRetriesOfCall => \A i \in 1..Len(queue) : queue[i].cmd # "body")
\* C5: every call terminates, whatever snapshot each attempt sees: a running
\* call eventually returns a selector or raises the not-found error, and on the
\* way the attempt counter never exceeds maxRetries and no snapshot is taken
\* after it has reached maxRetries.
C5_Terminates ==
  /\ []BoundedAttempts
  /\ (status = "running" ~> status \in {"returned", "raised"})
C5_Witness ==
  /\ Healed /\ attempts = maxRetriesOfCall /\ attempts >= 2 /\ waits = attempts - 1

C7_OneFailedEntry ==
  /\ Exhausted =>
       /\ Len(Appended) = 1
       /\ Appended[1].action = "healing_failed"
       /\ Appended[1].oldSelector = original
       /\ Appended[1].newSelector = ""
  /\ status \in {"running", "returned"} =>
       \A i \in 1..Len(Appended) : Appended[i].action # "healing_failed"
C7_Witness == Exhausted /\ Len(Appended) = 1 /\ attempts = 1 /\ body # {}

\* C8: a file-system failure inside the updateLocator task never changes the
\* outcome: the call that found a fallback still returns it, and a call only ever
\* raises the not-found error.
C8_TaskFailureHarmless ==
  /\ (taskResult = "failure" /\ status # "running") =>
        /\ status = "returned"
        /\ result.kind = "selector"
        /\ result.selector = healingLogs[Len(healingLogs)].newSelector
  /\ status = "raised" => result.kind = "error"
C8_Witness == taskResult = "failure" /\ status = "returned" /\ logFile = <<>>

\* C9: a selector returned by an enabled resolution matched in the snapshot of the
\* attempt that returned it; a raised error carries the original selector and the
\* configured attempt count, and no selector.
C9_NeverWrongElement ==
  /\ (status = "returned" /\ Enabled) => result.kind = "selector" /\ result.selector \in body
  /\ status = "raised" =>
        /\ result.kind = "error"
        /\ result.selector = original
        /\ result.attempts = maxRetriesOfCall
C9_Witness ==
  /\ Healed /\ result.selector \in body /\ original \notin body
  /\ attempts = 1 /\ Cardinality(body) = 1

Priorities(strats) == [i \in 1..Len(strats) |-> strats[i].priority]

\* C10 (as claimed): the array built before the sensitivity filter always holds
\* six strategies, of priorities 1 to 6 in that order.
C10_AlwaysSix == genArgs.called => Priorities(pushed) = <<1, 2, 3, 4, 5, 6>>
\* C10 (amended): with a non-empty elementType the array holds six strategies of
\* priorities 1..6 in that order; without one it holds five, of priorities
\* 1, 3, 4, 5, 6 (the semantic strategy is not pushed).
C10_SixOnlyWithType ==
  genArgs.called =>
    Priorities(pushed) = IF genArgs.type \notin {NoType, ""}
                         THEN <<1, 2, 3, 4, 5, 6>> ELSE <<1, 3, 4, 5, 6>>
C10_Witness ==
  /\ genArgs.called /\ genArgs.type = "dialog"
  /\ Len(pushed) = 6 /\ pushed[2].selectors = <<>>
\* The attribute strategy of the last generation: the first strategy pushed.
AttributeSelectors == pushed[1].selectors
HasIdentifier == extractIdentifier(genArgs.selector) # NoIdentifier

\* C11 (as claimed): the attribute strategy yields exactly 24 selectors when an
\* identifier can be extracted from the original selector and 0 otherwise.
C11_TwentyFour ==
  genArgs.called => Len(AttributeSelectors) = IF HasIdentifier THEN 24 ELSE 0
\* C11 (amended): the attribute strategy has priority 1 and yields exactly 28
\* selectors (7 attributes, 4 operators each) when an identifier can be
\* extracted from the original selector and 0 otherwise.
C11_TwentyEight ==
  genArgs.called =>
    /\ pushed[1].priority = 1
    /\ Len(AttributeSelectors) = IF HasIdentifier THEN 28 ELSE 0
C11_Witness ==
  /\ genArgs.called /\ genArgs.selector = "#submit-btn"
  /\ Len(AttributeSelectors) = 28
  /\ AttributeSelectors[1] = "[id=\"submit-btn\"]"
  /\ AttributeSelectors[28] = "[aria-label$=\"submit-btn\"]"
\* C12: the wait that follows the k-th failed attempt lasts between D and
\* 1.1 * D milliseconds, D = min(1000 * 2^(k-1), 5000), and never exceeds 5500.
C12_BackoffWithinJitter ==
  \A k \in 1..Len(delays) :
    LET D == Min({1000 * 2 ^ (k - 1), 5000})
    IN  /\ D <= delays[k]
        /\ 10 * delays[k] <= 11 * D
        /\ delays[k] <= 5500
C12_Witness ==
  /\ Len(delays) = 5
  /\ delays[1] = 1000 /\ delays[2] = 2199 /\ delays[3] = 4000
  /\ delays[4] = 5499 /\ delays[5] = 5000
IsWrapper == chain.name \in {"clickWithHealing", "typeWithHealing"}
WrapperAction == [action |-> IF chain.name = "clickWithHealing" THEN "click" ELSE "type",
                  selector |-> subject, text |-> chain.text]
ResolverErrors ==
  {GetTimedOut(selector) : selector \in CmdDomPool}
  \cup (IF HealingOn THEN {AutoHealingFailed(chain.selector, CmdMaxRetries)} ELSE {})

\* C13: clickWithHealing and typeWithHealing resolve the selector exactly once
\* and then act once on the resolved element; every wait is one of the
\* resolver's (one between consecutive attempts); when the resolution fails no
\* DOM action is performed and the error is the resolver's own.
C13_PureComposition ==
  IsWrapper =>
    /\ resolutions <= 1
    /\ outcome.status = "running" => domActions = <<>>
    /\ outcome.status = "passed" =>
         /\ resolutions = 1
         /\ subject # ""
         /\ domActions = << WrapperAction >>
    /\ outcome.status = "failed" =>
         /\ resolutions = 1
         /\ domActions = <<>>
         /\ outcome.error \in ResolverErrors
    /\ outcome.status \in {"passed", "failed"} =>
         cyWaits = IF tries = 0 THEN 0 ELSE tries - 1
C13_Witness ==
  /\ chain.name = "typeWithHealing" /\ outcome.status = "passed"
  /\ subject = "[data-cy=\"submit-btn\"]" /\ chain.selector = "#submit-btn"
  /\ cyWaits = 1 /\ tries = 2
  /\ domActions = << [action |-> "type", selector |-> subject, text |-> "hello"] >>
SameAsFirst ==
  /\ genArgs.called /\ genFirst.called
  /\ genArgs.selector = genFirst.selector /\ genArgs.type = genFirst.type

\* C14: a getHealingStrategies call with the arguments of the first call yields
\* the same strategies, with the same selectors in the same order, both before
\* and after the sensitivity filter, whatever healingUtils calls, resolutions
\* and log operations happened in between.
C14_SameInputsSameStrategies ==
  SameAsFirst => pushed = genFirst.pushed /\ generated = genFirst.returned
C14_Witness ==
  /\ SameAsFirst /\ genCount = 2
  /\ genArgs.selector = "#submit-btn" /\ genArgs.type = "button"
  /\ env # Undefined /\ env.sensitivity = "high" /\ instance.config.sensitivity = "low"
  /\ healingLogs # <<>>
  /\ Len(generated) = 2 /\ Len(pushed) = 6
Appenders == {w \in Writers : writers[w].pc = "done"}
AllWritersReturned == \A w \in Writers : writers[w].pc \in {"done", "failed"}

\* C15: the log append is read-then-overwrite: the file always is what some
\* completed writer read plus that writer's record, whatever other writers
\* appended after that read. So a state is reachable in which every writer has
\* completed its append and the file holds fewer records than were appended.
C15_ReadThenOverwrite ==
  /\ Len(logFile) <= Cardinality(Appenders)
  /\ logFile # <<>> =>
       \E w \in Appenders : logFile = Append(writers[w].logs, WriterLog(w))
C15_Witness ==
  /\ Appenders = Writers
  /\ Len(logFile) < Cardinality(Appenders)
  /\ \E w \in Writers : writers[w].selector = "table tr" /\ logFile = << WriterLog(w) >>
ComparisonDone == visPc = "done" /\ shot.entry # "none"
AllVisualResults ==
  {taskReturn, verdict.value} \cup {testResults[i] : i \in 1..Len(testResults)}

\* C16: in every comparison result (returned by the task, yielded by an entry
\* point or kept in testResults) passed is true exactly when diffPixels is 0;
\* a result that only carries an error has neither property.
C16_PassedIffZeroDiff ==
  \A r \in AllVisualResults : r.kind = "result" => (r.passed <=> r.diffPixels = 0)
C16_Witness ==
  /\ ComparisonDone /\ shot.entry = "compareScreenshot"
  /\ taskReturn = VisResult(FALSE, 100)
  /\ verdict = Yields(taskReturn) /\ testResults = << taskReturn >>

DimensionsDiffer(a, b) == a.width # b.width \/ a.height # b.height
ComparedMismatch ==
  /\ ComparisonDone /\ taskReturn # NoValue
  /\ shot.readable /\ shot.baseline # MissingFile /\ visEnv # Undefined
  /\ DimensionsDiffer(shot.baseline, shot.image)

\* C17 (as claimed): a comparison of a baseline and an actual image of different
\* dimensions ends with an error that fails the call, on both entry points,
\* and never with a passed result.
C17_MismatchRaises ==
  ComparedMismatch => verdict.status = "raised" /\ taskReturn.kind = "error"

\* C18 (as claimed): an enabled comparison for a name without a baseline file
\* reports a pass and leaves the captured image as the baseline of that name.
C18_MissingBaselineCreated ==
  (ComparisonDone /\ VisualEnabled(shot.entry, visEnv) /\ ~shot.hadBaseline) =>
     /\ verdict.status = "returned"
     /\ shot.entry = "compareScreenshot" => verdict.value = VisResult(TRUE, 0)
     /\ baselines[shot.name] = shot.image

SnapshotCompleted ==
  ComparisonDone /\ shot.entry = "compareSnapshot" /\ taskReturn.kind = "result"

\* C19: compareSnapshot fails the test on a completed comparison exactly when
\* diffPixels is greater than threshold * 1000; a result with 1 to
\* threshold * 1000 differing pixels has passed = false and does not fail it.
C19_FailsOnlyAboveCutoff ==
  SnapshotCompleted =>
    /\ verdict.status = "raised" <=> taskReturn.diffPixels > visEnv.thresholdMilli
    /\ verdict.status = "raised" => verdict.error = "Visual regression detected"
    /\ taskReturn.diffPixels \in 1..visEnv.thresholdMilli =>
         ~taskReturn.passed /\ verdict = Yields(NoValue)
C19_Witness ==
  /\ SnapshotCompleted /\ visEnv.thresholdMilli = 100
  /\ taskReturn = VisResult(FALSE, 100) /\ verdict.status = "returned"
AskedId == lastCall.testId
AskedRegistered == AskedId \in DOMAIN testRegistry
AskedHasFilteredTag == Range(testRegistry[AskedId].tags) \cap Range(tagFilters) # {}
AskedPassesPriority ==
  priorityFilters = << >> \/ testRegistry[AskedId].priority \in Range(priorityFilters)

\* C20: shouldRunTest(id) is true for an id that is not registered; with a
\* non-empty tag filter it is false for a registered test none of whose tags is
\* in the filter; and it is true for a registered test that has a filtered tag
\* (or faces an empty tag filter) and passes the priority filter.
C20_FilterDecidesRun ==
  lastCall.op = "shouldRunTest" =>
    /\ ~AskedRegistered => lastCall.value
    /\ (AskedRegistered /\ tagFilters # << >> /\ ~AskedHasFilteredTag) => ~lastCall.value
    /\ (AskedRegistered /\ (tagFilters = << >> \/ AskedHasFilteredTag) /\ AskedPassesPriority)
         => lastCall.value
C20_Witness ==
  /\ lastCall = [op |-> "shouldRunTest", testId |-> "login-test", value |-> FALSE]
  /\ tagFilters = <<"smoke">> /\ priorityFilters = << >>
  /\ MapHas(testRegistry, "login-test")
  /\ testRegistry["login-test"].tags = <<"regression", "suite:checkout">>
  /\ MapHas(testRegistry, "suite-checkout")
\* the position-based selectors of the structural strategy
PositionSelectors == {":first", ":last", ":nth-child(1)", ":nth-child(2)"}
\* the structural strategy generated for the call in progress
StructuralOfCall ==
  LET P == strategiesOf(original, hint, instance.config.sensitivity).pushed
  IN  P[CHOOSE i \in 1..Len(P) : P[i].priority = 4]

\* C21: the position-based selectors (:first, :last, :nth-child(1), :nth-child(2))
\* are candidates of the structural strategy exactly when the sensitivity is
\* high; under low or medium sensitivity a call never probes one of them and
\* never returns one, even when one matches in the snapshot.
C21_PositionOnlyHigh ==
  (Enabled /\ status # "idle") =>
     /\ (PositionSelectors \cap Range(StructuralOfCall.selectors) # {})
           <=> instance.config.sensitivity = "high"
     /\ instance.config.sensitivity # "high" =>
           /\ PositionSelectors \cap Range(probed) = {}
           /\ status = "returned" => result.selector \notin PositionSelectors
C21_Witness ==
  /\ Enabled /\ status = "raised" /\ instance.config.sensitivity = "medium"
  /\ original = "table tr" /\ ":first" \in body
  /\ probed[Len(probed)] = "table a"

\* The fuzzy strategy of the last generation: the last strategy pushed.
FuzzyStrategy == pushed[Len(pushed)]
PartialMatches(text) ==
  << "[id*=\"" \o text \o "\"]", "[class*=\"" \o text \o "\"]",
     "[data-testid*=\"" \o text \o "\"]" >>

\* C22: the fuzzy strategy has priority 6; it has no candidates when the
\* identifier is absent or has length <= 3; otherwise it has the three *=
\* selectors on id, class and data-testid built from the first
\* floor(length / 2) characters of the identifier, followed, when the
\* identifier without its non-alphanumeric characters differs from the
\* identifier, by the same three selectors built from the stripped form.
C22_FuzzyCandidates ==
  genArgs.called =>
    LET identifier == extractIdentifier(genArgs.selector)
        half       == SubSeq(identifier, 1, Len(identifier) \div 2)
        stripped   == MapChars(5, identifier, 1)
    IN  /\ FuzzyStrategy.priority = 6
        /\ FuzzyStrategy.selectors =
             IF identifier = NoIdentifier \/ Len(identifier) <= 3 THEN <<>>
             ELSE PartialMatches(half)
                  \o (IF stripped # identifier THEN PartialMatches(stripped) ELSE <<>>)

\* C23: when the updateLocator tasks run one after the other, every append to
\* the healing-log file leaves the records already stored unchanged and in
\* their order and adds exactly one record at the end: the content before the
\* append is a prefix of the content after it.
C23_AppendKeepsPrefix ==
  [][logFile' # logFile =>
       /\ Len(logFile') = Len(logFile) + 1
       /\ IsPrefix(logFile, logFile')
       /\ logFile'[Len(logFile')].action = "locator_updated"]_vars
C23_Witness ==
  /\ Len(logFile) = 3
  /\ logFile[1].newSelector = "[data-testid=\"submit-btn\"]"
  /\ logFile[2].oldSelector = "table tr"
  /\ logFile[3] # logFile[1]

\* C24: every attempt, not only the first, probes the original selector in its
\* own snapshot before any fallback candidate; when the original selector
\* matches in the snapshot of attempt k the call returns the original selector,
\* even when fallback candidates match too, and appends no healing-log entry.
C24_OriginalFirstEveryAttempt ==
  (Enabled /\ attempts >= 1) =>
     /\ Head(probed) = original
     /\ original \in body =>
          /\ probed = <<original>>
          /\ Appended = <<>>
          /\ waits = attempts - 1
          /\ \/ status = "running" /\ queue = <<CmdGet(original)>>
             \/ status = "returned" /\ result.kind = "selector" /\ result.selector = original
C24_Witness ==
  /\ status = "returned" /\ attempts = 2 /\ waits = 1
  /\ original = "#submit-btn" /\ body = {"#submit-btn", "button"} /\ hint = "button"
  /\ result.selector = original /\ healingLogs = <<>>

\* the updateLocator requests of the call that Cypress holds or has run
ReplacementRequested ==
  \/ \E i \in 1..Len(queue) : queue[i].cmd = "updateLocator"
  \/ taskResult # "none"

\* C25: an exhausted resolution leaves the test's source file unchanged, and no
\* replacement of the original selector in it is requested or performed.
C25_NoReplacementOnExhaustion ==
  Exhausted => testFile = SpecFileText /\ ~ReplacementRequested

\* C26: with auto-healing disabled in the configuration, a resolution only
\* issues the plain query for the original selector: it takes no snapshot,
\* generates no strategies, probes nothing, waits no backoff, appends no
\* healing-log entry and invokes no updateLocator task, and both files stay as
\* they were; it yields the chain of the original selector and never raises
\* the not-found error.
C26_DisabledPlainQuery ==
  (status # "idle" /\ ~instance.config.enabled) =>
     /\ attempts = 0 /\ generations = 0 /\ waits = 0
     /\ probed = <<>>
     /\ Appended = <<>>
     /\ taskResult = "none"
     /\ \A i \in 1..Len(queue) : queue[i].cmd = "get" /\ queue[i].selector = original
     /\ testFile = SpecFileText /\ logFile = <<>>
     /\ status = "running" => queue = <<CmdGet(original)>>
     /\ status # "running" =>
          status = "returned" /\ result.kind = "selector" /\ result.selector = original
C26_Witness ==
  /\ status = "returned" /\ instance # NoInstance /\ ~instance.config.enabled
  /\ original = "table tr" /\ result.selector = "table tr"
  /\ attempts = 0 /\ healingLogs = <<>>

\* the candidates the specification permits under a sensitivity: those of the
\* strategies generated under it whose priority is within its ceiling
PermittedUnder(sensitivity) ==
  LET P == strategiesOf(original, hint, sensitivity).pushed
  IN  UNION {Range(P[i].selectors) :
               i \in {i \in 1..Len(P) : P[i].priority <= Ceiling(sensitivity)}}

\* C27: the settings last written through healingUtils (they are what
\* Cypress.env('autoHealing') holds) govern a later findElementWithHealing
\* call, also when the singleton existed before they were written: with
\* enabled false the call performs no healing, and otherwise every fallback it
\* probes is within the priority ceiling of the sensitivity that was set.
C27_UtilsGovernLaterCalls ==
  (status # "idle" /\ env # Undefined) =>
     /\ ~env.enabled => attempts = 0 /\ probed = <<>> /\ Appended = <<>>
     /\ (env.enabled /\ env.sensitivity \in Sensitivities) =>
          \A i \in 2..Len(probed) : probed[i] \in PermittedUnder(env.sensitivity)

\* C28: the two tag queries agree on every registry the helpers and removeTest
\* can produce: a tag is in getTagStatistics() exactly when getTestsByTag(tag)
\* is not empty, and its count is the number of tests getTestsByTag(tag) holds.
C28_TagQueriesAgree ==
  LET stats == getTagStatistics(testRegistry)
  IN  \A t \in DOMAIN stats \cup Range(tagFilters) \cup {"ghost-tag"} :
        LET tests == getTestsByTag(testRegistry, t)
        IN  /\ t \in DOMAIN stats <=> DOMAIN tests # {}
            /\ t \in DOMAIN stats => stats[t] = Cardinality(DOMAIN tests)

StatusCounters == <<testMetrics.passedTests, testMetrics.failedTests, testMetrics.skippedTests>>
\* C29: after any sequence of recordTestResult, endTestTimer, startTestTimer
\* and cleanup calls totalTests = passedTests + failedTests + skippedTests;
\* every recordTestResult raises totalTests and exactly the counter of its
\* status by 1, endTestTimer leaves the four counters alone, and cleanup sets
\* all of them to 0.
C29_CountersAddUp ==
  /\ [](testMetrics.totalTests
          = testMetrics.passedTests + testMetrics.failedTests + testMetrics.skippedTests)
  /\ [][ /\ lastOp'.op = "recordTestResult" =>
              /\ testMetrics'.totalTests = testMetrics.totalTests + 1
              /\ testMetrics'.passedTests = testMetrics.passedTests
                    + (IF lastOp'.status = "passed" THEN 1 ELSE 0)
              /\ testMetrics'.failedTests = testMetrics.failedTests
                    + (IF lastOp'.status = "failed" THEN 1 ELSE 0)
              /\ testMetrics'.skippedTests = testMetrics.skippedTests
                    + (IF lastOp'.status = "skipped" THEN 1 ELSE 0)
         /\ lastOp'.op \in {"endTestTimer", "startTestTimer"} =>
              /\ testMetrics'.totalTests = testMetrics.totalTests
              /\ StatusCounters' = StatusCounters
         /\ lastOp'.op = "cleanup" =>
              testMetrics'.totalTests = 0 /\ StatusCounters' = <<0, 0, 0>> ]_vars
C29_Witness ==
  /\ lastOp.op = "recordTestResult" /\ lastOp.status = "skipped"
  /\ testMetrics.totalTests = 2 /\ StatusCounters = <<0, 1, 1>>
  /\ testMetrics.totalDuration = 40

\* requests the polling call has issued: those answered and the one that failed
Requested == Len(responses) + (IF apiResult # NoValue /\ apiResult.kind = "error" THEN 1 ELSE 0)
PollingBounded ==
  apiCall # NoCall =>
     /\ Requested <= apiCall.maxAttempts
     /\ apiAttempts <= apiCall.maxAttempts
     /\ \A i \in 1..(Len(responses) - 1) : ~Qualifies(apiCall, responses[i])
     /\ (apiResult # NoValue /\ apiResult.kind = "response") =>
          LET n == Len(responses)
          IN  /\ n >= 1 /\ apiResult.response = responses[n]
              /\ Qualifies(apiCall, responses[n]) \/ n = apiCall.maxAttempts
              /\ apiQueue = <<>>
              /\ apiWaits = n - 1
     /\ (apiResult # NoValue /\ apiResult.kind = "error") =>
          \A i \in 1..Len(responses) : ~Qualifies(apiCall, responses[i])
\* C30: waitForApiResponse and pollUntilCondition (maxAttempts >= 1) always
\* end, after at most maxAttempts GET requests: they yield the first response
\* that has the expected status or satisfies the condition and issue no
\* request after it; when no response qualifies they yield the response of
\* the maxAttempts-th request and raise no error.  The test only fails when a
\* request itself gets no response.
C30_PollingTerminates ==
  /\ []PollingBounded
  /\ ((apiCall # NoCall /\ apiResult = NoValue) ~> apiResult # NoValue)
C30_Witness ==
  /\ apiCall.op = "pollUntilCondition" /\ apiCall.maxAttempts = 3
  /\ apiResult # NoValue /\ apiResult.kind = "response"
  /\ Len(responses) = 3 /\ ~Qualifies(apiCall, responses[3])
  /\ apiWaits = 2

====
